---- MODULE Spec2Model ----
(***************************************************************************)
(* Model of the McLeod order -> Load Event transformation of               *)
(* integrations/meiborg_brothers/handlers (find_load.py,                   *)
(* find_load_utils.py) and of the call sweeps of the same package          *)
(* (pre_pickup.py with redis_client.py, pre_shipment.py, in_transit.py,    *)
(* utils.py).                                                              *)
(*                                                                         *)
(* Python values are tagged records: None, strings (sequences of           *)
(* one-character strings), integers, booleans, dicts (functions from key   *)
(* strings to values) and lists (sequences of values).  A raised exception *)
(* is the value Raised.                                                    *)
(***************************************************************************)
EXTENDS Integers, Sequences, FiniteSets, TLC

VARIABLES
    fn,        \* name of the function that has been applied ("" before the call)
    input,     \* argument of a single function call
    output,    \* its return value, or Raised
    orders,    \* argument of _transform_orders_to_load_event
    idx,       \* number of orders the for-loop has consumed
    payloads,  \* the list `payloads` built by the loop
    pc,        \* "loop" while the for-loop runs, "returned" after `return payloads`
    env,       \* the sweeps' surroundings: REDIS_URL, faults, the Order Source's orders
    redis,     \* the keys Redis holds
    calls,     \* the process_order call each pre-pickup sweep is in
    log        \* what the sweeps did so far: calls, Redis accesses, webhooks, returns

vars == <<fn, input, output, orders, idx, payloads, pc, env, redis, calls, log>>

-----------------------------------------------------------------------------
(* Bounds *)

\* longest stop list of an order
MaxStops == 3
\* longest batch handed to _transform_orders_to_load_event
MaxOrders == 2

-----------------------------------------------------------------------------
(* Python values *)

None == [t |-> "none"]
Raised == [t |-> "raised"]
Str(s) == [t |-> "str", s |-> s]
Num(n) == [t |-> "num", n |-> n]
Bool(b) == [t |-> "bool", b |-> b]
\* a float: sign, whole part and the digits after the point (no trailing zeros)
Float(neg, w, frac) == [t |-> "float", neg |-> neg, w |-> w, frac |-> frac]
Dict(d) == [t |-> "dict", d |-> d]
List(l) == [t |-> "list", l |-> l]
\* a tuple a function returns
Tuple(l) == [t |-> "tuple", l |-> l]

\* a string literal as a sequence of one-character strings
S(lit) == [i \in 1..Len(lit) |-> SubSeq(lit, i, i)]
PyStr(lit) == Str(S(lit))

EmptyDict == Dict(<<>>)
EmptyList == List(<<>>)

IsNone(v) == v.t = "none"
IsStr(v) == v.t = "str"
IsNum(v) == v.t = "num"
IsBool(v) == v.t = "bool"
IsFloat(v) == v.t = "float"
IsDict(v) == v.t = "dict"
IsList(v) == v.t = "list"
IsRaised(v) == v.t = "raised"

\* bool(v)
Truthy(v) ==
    CASE v.t = "none" -> FALSE
      [] v.t = "str" -> v.s # <<>>
      [] v.t = "num" -> v.n # 0
      [] v.t = "float" -> v.w # 0 \/ v.frac # <<>>
      [] v.t = "bool" -> v.b
      [] v.t = "dict" -> DOMAIN v.d # {}
      [] v.t = "list" -> v.l # <<>>
      [] OTHER -> TRUE

\* a or b
Or(a, b) == IF Truthy(a) THEN a ELSE b

\* k in d, for a dict d
Has(d, k) == k \in DOMAIN d.d

\* d.get(k), for a dict d
Get(d, k) == IF k \in DOMAIN d.d THEN d.d[k] ELSE None

\* a dict literal from a set of keys and a value for each key
MkDict(keys, val(_)) == Dict([k \in keys |-> val(k)])

-----------------------------------------------------------------------------
(* str methods *)

UpperCase == S("ABCDEFGHIJKLMNOPQRSTUVWXYZ")
LowerCase == S("abcdefghijklmnopqrstuvwxyz")
Whitespace == {" ", "\t", "\n"}

LowerTable == [c \in {UpperCase[i] : i \in 1..26} |->
                  LowerCase[CHOOSE i \in 1..26 : UpperCase[i] = c]]
UpperTable == [c \in {LowerCase[i] : i \in 1..26} |->
                  UpperCase[CHOOSE i \in 1..26 : LowerCase[i] = c]]

LowerChar(c) == IF c \in DOMAIN LowerTable THEN LowerTable[c] ELSE c
UpperChar(c) == IF c \in DOMAIN UpperTable THEN UpperTable[c] ELSE c

\* s.lower(), s.upper()
Lower(s) == [i \in 1..Len(s) |-> LowerChar(s[i])]
Upper(s) == [i \in 1..Len(s) |-> UpperChar(s[i])]

\* s.strip()
Strip(s) ==
    LET keep == {i \in 1..Len(s) : s[i] \notin Whitespace}
    IN  IF keep = {} THEN <<>>
        ELSE LET lo == CHOOSE i \in keep : \A j \in keep : i <= j
                 hi == CHOOSE i \in keep : \A j \in keep : j <= i
             IN  SubSeq(s, lo, hi)

\* s.startswith(p)
StartsWith(s, p) == Len(s) >= Len(p) /\ SubSeq(s, 1, Len(p)) = p

\* s.split(sep)[0]: the part of s before the first sep
SplitFirst(s, sep) ==
    LET hits == {i \in 1..Len(s) : s[i] = sep}
    IN  IF hits = {} THEN s
        ELSE SubSeq(s, 1, (CHOOSE i \in hits : \A j \in hits : i <= j) - 1)

\* s[a:b] with 0 <= a <= b, as Python slices: clipped to the length of s
Slice(s, a, b) == SubSeq(s, a + 1, IF b < Len(s) THEN b ELSE Len(s))

Digits == S("0123456789")
IsDigit(c) == \E i \in 1..10 : Digits[i] = c
DigitVal(c) == (CHOOSE i \in 1..10 : Digits[i] = c) - 1

-----------------------------------------------------------------------------
(* Timestamp normalizer *)

\* f"{core[0:4]}-{core[4:6]}-{core[6:8]}T{core[8:10]}:{core[10:12]}:{core[12:14]}"
IsoOf(core) ==
    Slice(core, 0, 4) \o <<"-">> \o Slice(core, 4, 6) \o <<"-">> \o
    Slice(core, 6, 8) \o <<"T">> \o Slice(core, 8, 10) \o <<":">> \o
    Slice(core, 10, 12) \o <<":">> \o Slice(core, 12, 14)

\* a mutant of format_timestamp: keeps the text after the first 14 characters
format_timestamp_keeps_tail(raw) ==
    IF ~Truthy(raw) \/ ~IsStr(raw) THEN None
    ELSE IF Len(raw.s) < 14 THEN None
         ELSE Str(IsoOf(raw.s) \o SubSeq(raw.s, 15, Len(raw.s)))

\* find_load_utils.format_timestamp
format_timestamp(raw) ==
    IF ~Truthy(raw) \/ ~IsStr(raw) THEN None
    ELSE LET core == SplitFirst(raw.s, "-")
         IN  IF Len(core) < 14 THEN None ELSE Str(IsoOf(core))

\* a mutant of convert: the text after the first "-" is not trimmed
convert_no_trim(val) ==
    IF ~Truthy(val) \/ ~IsStr(val) THEN None
    ELSE IF Len(val.s) < 14 THEN None ELSE Str(IsoOf(val.s))

\* find_load._format_window.convert
convert(val) ==
    IF ~Truthy(val) \/ ~IsStr(val) THEN None
    ELSE LET core == SplitFirst(val.s, "-")
         IN  IF Len(core) < 14 THEN None ELSE Str(IsoOf(core))

\* find_load._format_window
_format_window(st) ==
    <<convert(Get(st, "sched_arrive_early")), convert(Get(st, "sched_arrive_late"))>>

\* Inputs of the timestamp normalizer.
TsDigits == {S("20240101080000"), S("19991231235959"), S("20250615123045")}
TsCores == {SubSeq(d, 1, n) : d \in TsDigits, n \in 0..14}
TsSuffixes == {S(""), S("-0600"), S("-0500"), S("-06-00"), S("-"), S("+0100"), S("Z"), S("00")}
TsStrings == {c \o x : c \in TsCores, x \in TsSuffixes}
TsInputs == {Str(s) : s \in TsStrings}
              \cup {None, Num(0), Num(20240101), Bool(TRUE), EmptyDict, EmptyList,
                    List(<<PyStr("20240101080000")>>)}

\* no sweep runs
NoSweep ==
    /\ env = None
    /\ redis = {}
    /\ calls = <<>>
    /\ log = <<>>

InitIdle ==
    /\ NoSweep
    /\ fn = ""
    /\ output = None
    /\ orders = <<>>
    /\ idx = 0
    /\ payloads = <<>>
    /\ pc = "idle"

InitTimestamp == input \in TsInputs /\ InitIdle

FormatTimestamp ==
    /\ fn = ""
    /\ fn' = "format_timestamp"
    /\ output' = format_timestamp(input)
    /\ UNCHANGED <<input, orders, idx, payloads, pc, env, redis, calls, log>>

Convert ==
    /\ fn = ""
    /\ fn' = "convert"
    /\ output' = convert(input)
    /\ UNCHANGED <<input, orders, idx, payloads, pc, env, redis, calls, log>>

NextTimestamp == FormatTimestamp \/ Convert

SpecTimestamp == InitTimestamp /\ [][NextTimestamp]_vars

IsTimestampCall == fn \in {"format_timestamp", "convert"}

\* the input is 14 digits, optionally followed by "-" and an offset
WellFormedTs(v) ==
    /\ IsStr(v)
    /\ Len(v.s) >= 14
    /\ \A i \in 1..14 : IsDigit(v.s[i])
    /\ Len(v.s) > 14 => v.s[15] = "-"

\* "YYYY-MM-DDTHH:MM:SS" written out from the first 14 characters of s
ExpectedIso(s) ==
    <<s[1], s[2], s[3], s[4], "-", s[5], s[6], "-", s[7], s[8], "T",
      s[9], s[10], ":", s[11], s[12], ":", s[13], s[14]>>

\* C6: both timestamp normalizers map 14 digits with an optional "-offset" to
\* YYYY-MM-DDTHH:MM:SS built from those digits (the offset dropped), and map a
\* missing value, a non-string, and a string with fewer than 14 characters
\* before its first "-" to None.
C6_TimestampNormalized ==
    IsTimestampCall =>
        /\ WellFormedTs(input) => output = Str(ExpectedIso(input.s))
        /\ (~IsStr(input) \/ Len(SplitFirst(input.s, "-")) < 14) => output = None

C6_Witness ==
    /\ fn = "convert"
    /\ input = PyStr("20240101080000-0600")
    /\ output = PyStr("2024-01-01T08:00:00")

-----------------------------------------------------------------------------
(* Status normalizer *)

\* _derive_status.allowed
allowed ==
    {S("at_pickup"), S("picked_up"), S("at_delivery"), S("dispatched"),
     S("delivered"), S("en_route"), S("in_transit"), S("completed"),
     S("available"), S("covered"), S("unavailable")}

\* _derive_status.normalize, applied to the characters of a str
normalize(text) ==
    IF text = <<>> THEN None
    ELSE LET t == Lower(Strip(text))
         IN  CASE t \in allowed -> Str(t)
               [] StartsWith(t, S("deliver")) \/ t = S("delv") -> PyStr("delivered")
               [] StartsWith(t, S("dispatch")) \/ t = S("disp") -> PyStr("dispatched")
               [] StartsWith(t, S("avail")) \/ t = S("avail") -> PyStr("available")
               [] t \in {S("at pu"), S("at_pickup"), S("atpu"), S("pu")} -> PyStr("at_pickup")
               [] t \in {S("picked up"), S("picked_up"), S("pku")} -> PyStr("picked_up")
               [] t \in {S("at dl"), S("at_delivery"), S("atdl"), S("dl")} -> PyStr("at_delivery")
               [] t \in {S("en route"), S("enroute"), S("en_rt")} -> PyStr("en_route")
               [] t \in {S("in transit"), S("in_transit"), S("intr")} -> PyStr("in_transit")
               [] StartsWith(t, S("complet")) \/ t = S("cmpl") -> PyStr("completed")
               [] StartsWith(t, S("cover")) \/ t = S("covr") -> PyStr("covered")
               [] StartsWith(t, S("unavail")) \/ t = S("unav") -> PyStr("unavailable")
               [] OTHER -> None

\* normalize(x) if isinstance(x, str) else None
NormalizeIfStr(x) == IF IsStr(x) THEN normalize(x.s) ELSE None

\* _derive_status, from "# 3) Try orders.status code fallback" on
DeriveStatusFromCode(order) ==
    LET code == Get(order, "status")
        descr == Get(order, "__statusDescr")
    IN  IF IsStr(code) /\ Upper(Strip(code.s)) = S("D") THEN PyStr("delivered")
        ELSE \* (order.get("status") or "").strip(): AttributeError on a non-str
             IF ~IsStr(Or(code, PyStr(""))) \/ ~IsStr(Or(descr, PyStr(""))) THEN Raised
             ELSE LET status_code == Upper(Strip(Or(code, PyStr("")).s))
                      status_descr == Upper(Strip(Or(descr, PyStr("")).s))
                  IN  IF \/ status_code \in {S("A"), S("ACTIVE"), S("REVIEW")}
                         \/ status_descr \in {S("A"), S("ACTIVE"), S("REVIEW"), S("AVAILABLE")}
                      THEN PyStr("available")
                      ELSE PyStr("covered")

\* _derive_status, from "# 2) Try orders.__statusDescr" on
DeriveStatusFromDescr(order) ==
    LET mapped == NormalizeIfStr(Get(order, "__statusDescr"))
    IN  IF Truthy(mapped) THEN mapped ELSE DeriveStatusFromCode(order)

\* a mutant of _derive_status: __statusDescr is tried before the movement
_derive_status_descr_first(order) ==
    IF ~IsDict(order) THEN Raised
    ELSE LET mapped == NormalizeIfStr(Get(order, "__statusDescr"))
             mvts == Or(Get(order, "movement"), EmptyList)
             m0 == Or(mvts.l[1], EmptyDict)
         IN  IF Truthy(mapped) THEN mapped
             ELSE IF Truthy(mvts) /\ IsList(mvts) /\ IsDict(m0)
                     /\ Truthy(NormalizeIfStr(Get(m0, "brokerage_status")))
                  THEN NormalizeIfStr(Get(m0, "brokerage_status"))
                  ELSE DeriveStatusFromCode(order)

\* find_load._derive_status
_derive_status(order) ==
    IF ~IsDict(order) THEN Raised   \* order.get on a non-mapping
    ELSE LET mvts == Or(Get(order, "movement"), EmptyList)
         IN  IF Truthy(mvts) /\ IsList(mvts)
             THEN LET m0 == Or(mvts.l[1], EmptyDict)
                  IN  IF ~IsDict(m0) THEN Raised   \* (mvts[0] or {}).get
                      ELSE LET mapped == NormalizeIfStr(Get(m0, "brokerage_status"))
                           IN  IF Truthy(mapped) THEN mapped
                               ELSE DeriveStatusFromDescr(order)
             ELSE DeriveStatusFromDescr(order)

Absent == [t |-> "absent"]

\* the dict holding the given value under each key, a key with Absent left out
Record(keys, val(_)) == MkDict({k \in keys : val(k) # Absent}, val)

StatusCodes ==
    {Absent, None, PyStr("A"), PyStr("D"), PyStr(" d "), PyStr("active"),
     PyStr("X"), PyStr(""), Num(5), Num(0), Bool(TRUE),
     Dict([code |-> PyStr("D")])}

StatusDescrs ==
    {Absent, None, PyStr("Delivered"), PyStr(" In Transit "), PyStr("AVAILABLE"),
     PyStr("a"), PyStr("Review"), PyStr("Void"), PyStr(""), Num(7),
     Dict([text |-> PyStr("Delivered")])}

BrokerageStatuses ==
    {Absent, None, PyStr("DELV"), PyStr("AVAIL"), PyStr("Covered"), PyStr("BOOKED"),
     PyStr("TRANSIT"), PyStr(""), Num(3)}

Movements ==
    {Absent, None, EmptyList, List(<<None>>), List(<<EmptyDict>>),
     PyStr("DELV"), Dict([brokerage_status |-> PyStr("DELV")]), Num(1),
     List(<<PyStr("DELV")>>)}
    \cup {List(<<Record({"brokerage_status"}, LAMBDA k : b)>>) : b \in BrokerageStatuses}
    \cup {List(<<None, Dict([brokerage_status |-> PyStr("DELV")])>>)}

StatusOrders ==
    {Record({"status", "__statusDescr", "movement"},
            LAMBDA k : CASE k = "status" -> c
                         [] k = "__statusDescr" -> d
                         [] k = "movement" -> m)
        : c \in StatusCodes, d \in StatusDescrs, m \in Movements}
    \cup {None, PyStr("order"), EmptyList}

InitStatus == input \in StatusOrders /\ InitIdle

DeriveStatus ==
    /\ fn = ""
    /\ fn' = "_derive_status"
    /\ output' = _derive_status(input)
    /\ UNCHANGED <<input, orders, idx, payloads, pc, env, redis, calls, log>>

NextStatus == DeriveStatus

SpecStatus == InitStatus /\ [][NextStatus]_vars

CanonicalStatuses == {Str(s) : s \in allowed}

\* the order is a mapping whose 'movement' entries are mappings or null
\* (the claims' order records; the first movement may be null)
IsOrderRecord(o) ==
    /\ IsDict(o)
    /\ LET mv == Get(o, "movement")
       IN  IsList(mv) => \A i \in 1..Len(mv.l) : IsDict(mv.l[i]) \/ IsNone(mv.l[i])

\* C2: _derive_status returns one of the 11 canonical values for every order
\* record, also when status or __statusDescr is not a string, and never raises.
C2_DeriveStatusTotal ==
    (fn = "_derive_status" /\ IsOrderRecord(input)) => output \in CanonicalStatuses

\* the first movement's brokerage_status normalized, None when there is none
BrokerageMapped(o) ==
    LET mv == Get(o, "movement")
    IN  IF IsList(mv) /\ Len(mv.l) > 0 /\ IsDict(mv.l[1])
        THEN NormalizeIfStr(Get(mv.l[1], "brokerage_status"))
        ELSE None

DescrMapped(o) == NormalizeIfStr(Get(o, "__statusDescr"))

CodeIsD(o) == IsStr(Get(o, "status")) /\ Upper(Strip(Get(o, "status").s)) = S("D")

\* C3: the movement's brokerage status overrides __statusDescr, which overrides
\* the status code 'D', which overrides the default bucket.
C3_StatusPrecedence ==
    (fn = "_derive_status" /\ IsOrderRecord(input)) =>
        LET b == BrokerageMapped(input)
            d == DescrMapped(input)
        IN  /\ b # None => output = b
            /\ (b = None /\ d # None) => output = d
            /\ (b = None /\ d = None /\ CodeIsD(input)) => output = PyStr("delivered")
            /\ (b = None /\ d = None /\ ~CodeIsD(input))
                    => output \in {PyStr("available"), PyStr("covered"), Raised}

\* all three sources normalize to different values; the movement wins
C3_Witness ==
    /\ fn = "_derive_status"
    /\ IsOrderRecord(input)
    /\ BrokerageMapped(input) = PyStr("covered")
    /\ DescrMapped(input) = PyStr("in_transit")
    /\ CodeIsD(input)
    /\ output = PyStr("covered")

-----------------------------------------------------------------------------
(* str() and int() *)

RECURSIVE NatToStr(_)
NatToStr(n) == IF n < 10 THEN <<Digits[n + 1]>> ELSE NatToStr(n \div 10) \o <<Digits[(n % 10) + 1]>>

\* str(v); the repr of a container is abbreviated
StrOf(v) ==
    CASE v.t = "str" -> v.s
      [] v.t = "none" -> S("None")
      [] v.t = "bool" -> IF v.b THEN S("True") ELSE S("False")
      [] v.t = "num" -> IF v.n < 0 THEN <<"-">> \o NatToStr(0 - v.n) ELSE NatToStr(v.n)
      [] v.t = "float" -> (IF v.neg THEN <<"-">> ELSE <<>>) \o NatToStr(v.w) \o <<".">>
                          \o (IF v.frac = <<>> THEN <<"0">> ELSE v.frac)
      [] v.t = "dict" -> S("{...}")
      [] v.t = "list" -> S("[...]")

RECURSIVE DigitsToNat(_)
DigitsToNat(s) ==
    IF s = <<>> THEN 0 ELSE 10 * DigitsToNat(SubSeq(s, 1, Len(s) - 1)) + DigitVal(s[Len(s)])

\* the text of an integer literal: optional sign, then digits
IsIntText(s) ==
    LET body == IF s # <<>> /\ s[1] \in {"+", "-"} THEN Tail(s) ELSE s
    IN  body # <<>> /\ \A i \in 1..Len(body) : IsDigit(body[i])

IntTextVal(s) ==
    IF s[1] = "-" THEN 0 - DigitsToNat(Tail(s))
    ELSE IF s[1] = "+" THEN DigitsToNat(Tail(s)) ELSE DigitsToNat(s)

\* int(v) returns (does not raise ValueError or TypeError)
CanInt(v) == IsNum(v) \/ IsBool(v) \/ IsFloat(v) \/ (IsStr(v) /\ IsIntText(Strip(v.s)))

\* int(v)
IntOf(v) ==
    CASE v.t = "num" -> v.n
      [] v.t = "bool" -> IF v.b THEN 1 ELSE 0
      [] v.t = "float" -> IF v.neg THEN 0 - v.w ELSE v.w
      [] v.t = "str" -> IntTextVal(Strip(v.s))

\* the text of a decimal literal: optional sign, digits, optional point and digits
\* (exponents, "inf" and "nan" are not covered)
IsFloatText(s) ==
    LET body == IF s # <<>> /\ s[1] \in {"+", "-"} THEN Tail(s) ELSE s
        whole == SplitFirst(body, ".")
        rest == SubSeq(body, Len(whole) + 2, Len(body))
    IN  /\ \A i \in 1..Len(whole) : IsDigit(whole[i])
        /\ \A i \in 1..Len(rest) : IsDigit(rest[i])
        /\ Len(whole) + Len(rest) > 0

RECURSIVE StripZeros(_)
StripZeros(s) ==
    IF s # <<>> /\ s[Len(s)] = "0" THEN StripZeros(SubSeq(s, 1, Len(s) - 1)) ELSE s

FloatTextVal(s) ==
    LET body == IF s[1] \in {"+", "-"} THEN Tail(s) ELSE s
        whole == SplitFirst(body, ".")
        rest == SubSeq(body, Len(whole) + 2, Len(body))
    IN  Float(s[1] = "-", DigitsToNat(whole), StripZeros(rest))

\* float(v) returns (does not raise ValueError or TypeError)
CanFloat(v) == IsNum(v) \/ IsBool(v) \/ IsFloat(v) \/ (IsStr(v) /\ IsFloatText(Strip(v.s)))

\* float(v)
FloatOf(v) ==
    CASE v.t = "num" -> Float(v.n < 0, IF v.n < 0 THEN 0 - v.n ELSE v.n, <<>>)
      [] v.t = "bool" -> Float(FALSE, IF v.b THEN 1 ELSE 0, <<>>)
      [] v.t = "float" -> v
      [] v.t = "str" -> FloatTextVal(Strip(v.s))

\* sub in s, for strings
Contains(s, sub) == \E i \in 0..(Len(s) - Len(sub)) : SubSeq(s, i + 1, i + Len(sub)) = sub

-----------------------------------------------------------------------------
(* Stop classifier *)

\* the values of a stop's "type"
origin == PyStr("origin")
destination == PyStr("destination")
pick == PyStr("pick")
drop == PyStr("drop")

EmptyStr == PyStr("")
US == PyStr("US")

PickupCodes == {S("PU"), S("ORIGIN")}
DropoffCodes == {S("SO"), S("DESTINATION")}
PickCodes == {S("PICK"), S("P")}
DropCodes == {S("DROP"), S("D")}

\* str(st.get("stop_type") or "").upper()
st_type_raw(st) == Upper(StrOf(Or(Get(st, "stop_type"), EmptyStr)))

\* the "location" dict built from a raw stop
LocationOf(st) ==
    MkDict({"city", "state", "zip", "country", "address"},
           LAMBDA k : CASE k = "city" -> Or(Get(st, "city_name"), Get(st, "city"))
                        [] k = "state" -> Get(st, "state")
                        [] k = "zip" -> Or(Get(st, "zip_code"), Get(st, "zip"))
                        [] k = "country" -> US
                        [] k = "address" -> Get(st, "address"))

\* _extract_stops, first pass: 0-based index of the last SO/DESTINATION stop, -1 if none
LastSoIdx(stops) ==
    LET hits == {i \in 1..Len(stops) : st_type_raw(stops[i]) \in DropoffCodes}
    IN  IF hits = {} THEN -1
        ELSE (CHOOSE i \in hits : \A j \in hits : j <= i) - 1

\* a mutant of StopType: an unrecognized last stop is a destination although an SO exists
StopType_last_unknown_is_destination(raw, i, n, origin_found, last_so_idx) ==
    CASE raw \in PickupCodes -> IF ~origin_found THEN origin ELSE pick
      [] raw \in DropoffCodes -> IF i = last_so_idx THEN destination ELSE drop
      [] raw \in PickCodes -> pick
      [] raw \in DropCodes -> drop
      [] OTHER -> IF i = 0 /\ ~origin_found THEN origin
                  ELSE IF i = n - 1 THEN destination
                  ELSE pick

\* a mutant of StopType: every SO/DESTINATION stop is a destination
StopType_every_so_is_destination(raw, i, n, origin_found, last_so_idx) ==
    CASE raw \in PickupCodes -> IF ~origin_found THEN origin ELSE pick
      [] raw \in DropoffCodes -> destination
      [] raw \in PickCodes -> pick
      [] raw \in DropCodes -> drop
      [] OTHER -> IF i = 0 /\ ~origin_found THEN origin
                  ELSE IF i = n - 1 /\ last_so_idx = -1 THEN destination
                  ELSE pick

\* _extract_stops, the if/elif chain that sets st_type for the stop at 0-based index i of n
StopType(raw, i, n, origin_found, last_so_idx) ==
    CASE raw \in PickupCodes -> IF ~origin_found THEN origin ELSE pick
      [] raw \in DropoffCodes -> IF i = last_so_idx THEN destination ELSE drop
      [] raw \in PickCodes -> pick
      [] raw \in DropCodes -> drop
      [] OTHER -> IF i = 0 /\ ~origin_found THEN origin
                  ELSE IF i = n - 1 /\ last_so_idx = -1 THEN destination
                  ELSE pick

\* _extract_stops, stop_order of the stop at 0-based index i
StopOrder(st, i) ==
    LET stop_order == Or(Get(st, "movement_sequence"), Get(st, "order_sequence"))
    IN  IF IsNone(stop_order) THEN i + 1
        ELSE IF CanInt(stop_order) THEN IntOf(stop_order) ELSE i + 1

\* stop_obj (and the synthesized stops): type, location, stop_order, optional timestamps
StopObj(st, st_type, stop_order, with_descr) ==
    LET w == _format_window(st)
        keys == {"type", "location", "stop_order"}
                \cup (IF Truthy(w[1]) THEN {"stop_timestamp_open"} ELSE {})
                \cup (IF Truthy(w[2]) THEN {"stop_timestamp_close"} ELSE {})
                \cup (IF with_descr /\ Truthy(Get(st, "__loadUnloadDescr")) THEN {"loading_type"} ELSE {})
                \cup (IF with_descr /\ Truthy(Get(st, "notes")) THEN {"notes"} ELSE {})
    IN  MkDict(keys,
               LAMBDA k : CASE k = "type" -> st_type
                            [] k = "location" -> LocationOf(st)
                            [] k = "stop_order" -> Num(stop_order)
                            [] k = "stop_timestamp_open" -> w[1]
                            [] k = "stop_timestamp_close" -> w[2]
                            [] k = "loading_type" -> Get(st, "__loadUnloadDescr")
                            [] k = "notes" -> Get(st, "notes"))

\* _extract_stops, the loop `for idx, st in enumerate(stops)` from 1-based position p on
RECURSIVE StopsLoop(_, _, _, _)
StopsLoop(stops, p, origin_found, last_so_idx) ==
    IF p > Len(stops) THEN <<>>
    ELSE LET st == stops[p]
             st_type == StopType(st_type_raw(st), p - 1, Len(stops), origin_found, last_so_idx)
         IN  <<StopObj(st, st_type, StopOrder(st, p - 1), TRUE)>>
             \o StopsLoop(stops, p + 1, origin_found \/ st_type = origin, last_so_idx)

HasType(result, ty) == \E i \in 1..Len(result) : result[i].d["type"] = ty

MaxStopOrder(result) ==
    LET so == {result[i].d["stop_order"].n : i \in 1..Len(result)}
    IN  IF so = {} THEN 1 ELSE CHOOSE m \in so : \A x \in so : x <= m

\* a mutant of EnsureOrigin: no origin is synthesized
EnsureOrigin_none(result, stops) == result

\* _extract_stops, "Ensure origin ... exist": insert a synthesized origin at the front
EnsureOrigin(result, stops) ==
    IF ~HasType(result, origin) /\ stops # <<>>
    THEN <<StopObj(stops[1], origin, 1, FALSE)>> \o result
    ELSE result

\* a mutant of EnsureDestination: the synthesized destination is numbered by its position
EnsureDestination_numbered_by_position(result, stops) ==
    IF ~HasType(result, destination) /\ stops # <<>>
    THEN Append(result, StopObj(stops[Len(stops)], destination, Len(result) + 1, FALSE))
    ELSE result

\* _extract_stops, "Ensure ... destination exist": append a synthesized destination
EnsureDestination(result, stops) ==
    IF ~HasType(result, destination) /\ stops # <<>>
    THEN Append(result, StopObj(stops[Len(stops)], destination, MaxStopOrder(result) + 1, FALSE))
    ELSE result

\* find_load._extract_stops
_extract_stops(order) ==
    IF ~IsDict(order) THEN Raised
    ELSE LET stops == Or(Get(order, "stops"), EmptyList)
         IN  IF ~Truthy(stops) THEN EmptyList
             ELSE IF ~IsList(stops) THEN Raised            \* len() / stops[idx].get
             ELSE IF \E i \in 1..Len(stops.l) : ~IsDict(stops.l[i]) THEN Raised  \* st.get
             ELSE List(EnsureDestination(
                          EnsureOrigin(StopsLoop(stops.l, 1, FALSE, LastSoIdx(stops.l)), stops.l),
                          stops.l))

\* Inputs of the stop classifier: stop lists of up to MaxStops stops, every
\* stop in its own city, with every mix of type codes, and the stop lists
\* the specification names.
TypeCodes ==
    {PyStr("PU"), PyStr("ORIGIN"), PyStr("SO"), PyStr("DESTINATION"), PyStr("PICK"),
     PyStr("P"), PyStr("DROP"), PyStr("D"), PyStr("XX"), PyStr("so"), Absent}

CityName(p) == Str(<<"C", Digits[p + 1]>>)

RawStop(code, p) ==
    Record({"stop_type", "city_name", "state"},
           LAMBDA k : CASE k = "stop_type" -> code
                        [] k = "city_name" -> CityName(p)
                        [] k = "state" -> PyStr("TX"))

StopList(n, codes) == [p \in 1..n |-> RawStop(codes[p], p)]

MalformedStopsInputs ==
    {EmptyDict, Dict([stops |-> None]), Dict([stops |-> PyStr("PU")]),
     Dict([stops |-> List(<<None>>)]),
     Dict([stops |-> List(<<RawStop(PyStr("PU"), 1), PyStr("SO")>>)]), None}

ExampleCodes ==
    {<<PyStr("PU"), PyStr("SO")>>,
     <<PyStr("PU"), PyStr("PICK"), PyStr("SO"), PyStr("SO")>>,
     <<PyStr("XX"), PyStr("PU"), PyStr("DROP"), PyStr("XX")>>}

\* stop lists of one and two stops with sequence numbers
SeqCodes == {PyStr("PU"), PyStr("PICK"), PyStr("SO")}
SeqValues == {Absent, Num(0), Num(5), PyStr("7"), PyStr("x")}

SeqStop(code, ms, os, p) ==
    Record({"stop_type", "city_name", "movement_sequence", "order_sequence"},
           LAMBDA k : CASE k = "stop_type" -> code
                        [] k = "city_name" -> CityName(p)
                        [] k = "movement_sequence" -> ms
                        [] k = "order_sequence" -> os)

InitStops ==
    /\ \/ \E n \in 0..MaxStops : \E codes \in [1..n -> TypeCodes] :
             input = Dict([stops |-> List(StopList(n, codes))])
       \/ \E codes \in ExampleCodes :
             input = Dict([stops |-> List(StopList(Len(codes), codes))])
       \/ \E n \in 1..2 : \E codes \in [1..n -> SeqCodes] :
          \E ms \in [1..n -> SeqValues] : \E os \in [1..n -> SeqValues] :
             input = Dict([stops |-> List([p \in 1..n |-> SeqStop(codes[p], ms[p], os[p], p)])])
       \/ input \in MalformedStopsInputs
    /\ InitIdle

ExtractStops ==
    /\ fn = ""
    /\ fn' = "_extract_stops"
    /\ output' = _extract_stops(input)
    /\ UNCHANGED <<input, orders, idx, payloads, pc, env, redis, calls, log>>

NextStops == ExtractStops

SpecStops == InitStops /\ [][NextStops]_vars

\* the order holds a non-empty list of stop records (mappings)
HasStopRecords(o) ==
    /\ IsDict(o)
    /\ IsList(Get(o, "stops"))
    /\ Get(o, "stops").l # <<>>
    /\ \A i \in 1..Len(Get(o, "stops").l) : IsDict(Get(o, "stops").l[i])

RawStops(o) == Get(o, "stops").l

\* the type codes of the raw stops, upper-cased, "" for a missing one
RawCodes(o) ==
    [i \in 1..Len(RawStops(o)) |->
        LET c == Get(RawStops(o)[i], "stop_type")
        IN  IF IsStr(c) THEN Upper(c.s) ELSE <<>>]

\* the positions of the PU/ORIGIN stops and of the SO/DESTINATION stops
PickupPositions(o) ==
    LET codes == RawCodes(o) IN {i \in DOMAIN codes : codes[i] \in PickupCodes}
DropoffPositions(o) ==
    LET codes == RawCodes(o) IN {i \in DOMAIN codes : codes[i] \in DropoffCodes}

\* the roles of the stops of a returned list
RolesOf(out) == [i \in 1..Len(out.l) |-> out.l[i].d["type"]]

CountRole(out, role) == Cardinality({i \in 1..Len(out.l) : out.l[i].d["type"] = role})

\* C1: for a non-empty list of stop records the returned list holds exactly
\* one origin and exactly one destination.
C1_OneOriginOneDestination ==
    (fn = "_extract_stops" /\ HasStopRecords(input)) =>
        /\ IsList(output)
        /\ CountRole(output, origin) = 1
        /\ CountRole(output, destination) = 1

\* no stop is classified origin by its code or position, so one is synthesized,
\* and an unrecognized last stop is not the destination because an SO precedes it
C1_Witness ==
    /\ fn = "_extract_stops"
    /\ HasStopRecords(input)
    /\ RawCodes(input) = <<S("PICK"), S("SO"), S("XX")>>
    /\ RolesOf(output) = <<origin, pick, destination, pick>>

\* C8: the first PU/ORIGIN stop is the origin and every later PU/ORIGIN stop a pick,
\* whatever precedes the first PU/ORIGIN stop.
C8_FirstPickupIsOrigin ==
    (fn = "_extract_stops" /\ HasStopRecords(input)) =>
        LET n == Len(RawStops(input))
            pickups == PickupPositions(input)
        IN  pickups # {} =>
              /\ IsList(output)
              /\ Len(output.l) >= n
              /\ \A i \in pickups :
                    output.l[i].d["type"] =
                        IF \A j \in pickups : i <= j THEN origin ELSE pick

\* the returned list holds the raw stops in order from position off + 1 on
Aligned(o, out, off) ==
    /\ Len(out.l) >= Len(RawStops(o)) + off
    /\ \A i \in 1..Len(RawStops(o)) :
          out.l[i + off].d["location"].d["city"] = Get(RawStops(o)[i], "city_name")

\* C9: the last SO/DESTINATION stop is the destination and every earlier one a drop;
\* [PU, SO] gives [origin, destination] and [PU, PICK, SO, SO] gives
\* [origin, pick, drop, destination], nothing synthesized.
C9_LastDropoffIsDestination ==
    (fn = "_extract_stops" /\ HasStopRecords(input)) =>
        LET drops == DropoffPositions(input)
            codes == RawCodes(input)
        IN  /\ drops # {} =>
                 /\ IsList(output)
                 /\ \E off \in {0, 1} :
                       /\ Aligned(input, output, off)
                       /\ \A i \in drops :
                             output.l[i + off].d["type"] =
                                 IF \A j \in drops : j <= i
                                 THEN destination ELSE drop
            /\ codes = <<S("PU"), S("SO")>> =>
                 RolesOf(output) = <<origin, destination>>
            /\ codes = <<S("PU"), S("PICK"), S("SO"), S("SO")>> =>
                 RolesOf(output) = <<origin, pick, drop, destination>>

C9_Witness ==
    /\ fn = "_extract_stops"
    /\ HasStopRecords(input)
    /\ RawCodes(input) = <<S("PU"), S("PICK"), S("SO"), S("SO")>>
    /\ RolesOf(output) = <<origin, pick, drop, destination>>

-----------------------------------------------------------------------------
(* Load Transformer: the extractors *)

\* find_load._get_order_id
_get_order_id(order) ==
    IF ~IsDict(order) THEN Raised              \* "id" in order / order.get
    ELSE IF Has(order, "id") THEN Str(Strip(StrOf(Get(order, "id"))))
    ELSE LET fg == Or(Get(order, "freightGroup"), EmptyDict)
         IN  CASE IsDict(fg) ->
                    IF Has(fg, "lme_order_id")
                    THEN Str(Strip(StrOf(Get(fg, "lme_order_id")))) ELSE EmptyStr
               [] IsStr(fg) ->                  \* substring test, then fg["lme_order_id"]
                    IF Contains(fg.s, S("lme_order_id")) THEN Raised ELSE EmptyStr
               [] IsList(fg) ->
                    IF \E i \in 1..Len(fg.l) : fg.l[i] = PyStr("lme_order_id")
                    THEN Raised ELSE EmptyStr
               [] OTHER -> Raised               \* "lme_order_id" in <number>

NotFound == [t |-> "notfound"]

EquipmentInitial == PyStr("Equipment Initial")

\* _extract_equipment, the inner loop over one stop's referenceNumbers from position q on:
\* the stripped reference number, NotFound, or Raised
RECURSIVE EquipmentInRefs(_, _)
EquipmentInRefs(refs, q) ==
    IF q > Len(refs) THEN NotFound
    ELSE IF ~IsDict(refs[q]) THEN Raised       \* ref.get
    ELSE IF Get(refs[q], "__referenceQualDescr") = EquipmentInitial
            /\ Truthy(Get(refs[q], "reference_number"))
         THEN Str(Strip(StrOf(Get(refs[q], "reference_number"))))
         ELSE EquipmentInRefs(refs, q + 1)

\* the sequence a for-loop iterates: the list itself; a non-iterable or an
\* iterable of non-mappings (str, dict keys) makes the loop body raise
IterRaises(v) == Truthy(v) /\ ~IsList(v)

\* _extract_equipment, the outer loop over the stops from position p on
RECURSIVE EquipmentInStops(_, _)
EquipmentInStops(stops, p) ==
    IF p > Len(stops) THEN NotFound
    ELSE IF ~IsDict(stops[p]) THEN Raised      \* st.get
    ELSE LET refs == Or(Get(stops[p], "referenceNumbers"), EmptyList)
         IN  IF IterRaises(refs) THEN Raised
             ELSE LET found == EquipmentInRefs(refs.l, 1)
                  IN  IF found = NotFound THEN EquipmentInStops(stops, p + 1) ELSE found

\* find_load._extract_equipment
_extract_equipment(order) ==
    IF ~IsDict(order) THEN Raised
    ELSE LET stops == Or(Get(order, "stops"), EmptyList)
         IN  IF IterRaises(stops) THEN Raised
             ELSE LET found == EquipmentInStops(stops.l, 1)
                      et == Get(order, "__equipmentTypeDescr")
                  IN  IF found # NotFound THEN found
                      ELSE IF Truthy(et) THEN Str(Strip(StrOf(et))) ELSE None

\* (mvts[0] or {}) of the order, NotFound unless 'movement' is a non-empty list
FirstMovement(order) ==
    LET mvts == Or(Get(order, "movement"), EmptyList)
    IN  IF Truthy(mvts) /\ IsList(mvts) THEN Or(mvts.l[1], EmptyDict) ELSE NotFound

\* a mutant of _extract_miles: the first movement's move_distance is preferred
_extract_miles_movement_first(order) ==
    IF ~IsDict(order) THEN Raised
    ELSE LET bill == Get(order, "bill_distance")
             m0 == FirstMovement(order)
             miles == IF IsDict(m0) THEN Get(m0, "move_distance") ELSE None
         IN  IF ~IsNone(miles) /\ CanInt(miles) THEN Num(IntOf(miles))
             ELSE IF ~IsNone(bill) /\ CanFloat(bill) THEN Num(IntOf(FloatOf(bill)))
             ELSE None

\* find_load._extract_miles
_extract_miles(order) ==
    IF ~IsDict(order) THEN Raised
    ELSE LET bill == Get(order, "bill_distance")
             m0 == FirstMovement(order)
         IN  IF ~IsNone(bill) /\ CanFloat(bill) THEN Num(IntOf(FloatOf(bill)))
             ELSE IF m0 = NotFound THEN None
             ELSE IF ~IsDict(m0) THEN Raised    \* (mvts[0] or {}).get
             ELSE LET miles == Get(m0, "move_distance")
                  IN  IF ~IsNone(miles) /\ CanInt(miles) THEN Num(IntOf(miles)) ELSE None

\* key in m0, for the first movement (a dict, or a str or list met instead)
MovementHas(m0, key) ==
    CASE IsDict(m0) -> Has(m0, key)
      [] IsStr(m0) -> Contains(m0.s, S(key))
      [] IsList(m0) -> \E i \in 1..Len(m0.l) : m0.l[i] = PyStr(key)

\* _extract_max_buy, one turn of the loop: float(m0[key]), or NotFound to go on
MaxBuyAt(m0, key) ==
    IF MovementHas(m0, key) /\ IsDict(m0) /\ CanFloat(Get(m0, key))
    THEN FloatOf(Get(m0, key)) ELSE NotFound

\* find_load._extract_max_buy
_extract_max_buy(order) ==
    IF ~IsDict(order) THEN Raised
    ELSE LET m0 == FirstMovement(order)
         IN  IF m0 = NotFound THEN None
             ELSE IF ~(IsDict(m0) \/ IsStr(m0) \/ IsList(m0)) THEN Raised  \* key in <number>
             ELSE IF MaxBuyAt(m0, "max_buy") # NotFound THEN MaxBuyAt(m0, "max_buy")
             ELSE IF MaxBuyAt(m0, "max_buy_n") # NotFound THEN MaxBuyAt(m0, "max_buy_n")
             ELSE None

\* _extract_posted_carrier_rate, one turn of the loop
PostedRateAt(m0, key) ==
    IF ~IsNone(Get(m0, key)) /\ CanFloat(Get(m0, key))
    THEN FloatOf(Get(m0, key)) ELSE NotFound

\* a mutant of _extract_posted_carrier_rate: the first field that is not None
\* decides, and a value float() rejects gives None
_extract_posted_carrier_rate_first_present(order) ==
    IF ~IsDict(order) THEN Raised
    ELSE LET m0 == FirstMovement(order)
         IN  IF m0 = NotFound THEN None
             ELSE IF ~IsDict(m0) THEN Raised
             ELSE LET first == IF ~IsNone(Get(m0, "override_max_pay")) THEN "override_max_pay"
                               ELSE IF ~IsNone(Get(m0, "target_pay")) THEN "target_pay"
                               ELSE "target_pay_n"
                  IN  IF PostedRateAt(m0, first) # NotFound
                      THEN PostedRateAt(m0, first) ELSE None

\* find_load._extract_posted_carrier_rate
_extract_posted_carrier_rate(order) ==
    IF ~IsDict(order) THEN Raised
    ELSE LET m0 == FirstMovement(order)
         IN  IF m0 = NotFound THEN None
             ELSE IF ~IsDict(m0) THEN Raised    \* (mvts[0] or {}).get
             ELSE IF PostedRateAt(m0, "override_max_pay") # NotFound
                  THEN PostedRateAt(m0, "override_max_pay")
             ELSE IF PostedRateAt(m0, "target_pay") # NotFound
                  THEN PostedRateAt(m0, "target_pay")
             ELSE IF PostedRateAt(m0, "target_pay_n") # NotFound
                  THEN PostedRateAt(m0, "target_pay_n")
             ELSE None

\* _extract_weight, the loop over the stops from position p on
RECURSIVE WeightInStops(_, _)
WeightInStops(stops, p) ==
    IF p > Len(stops) THEN None
    ELSE LET st == stops[p]
         IN  CASE IsDict(st) ->
                    IF Has(st, "weight") /\ ~IsNone(Get(st, "weight")) /\ CanFloat(Get(st, "weight"))
                    THEN FloatOf(Get(st, "weight"))
                    ELSE WeightInStops(stops, p + 1)
               [] IsStr(st) ->                  \* substring test, then st["weight"]
                    IF Contains(st.s, S("weight")) THEN Raised ELSE WeightInStops(stops, p + 1)
               [] IsList(st) ->
                    IF \E i \in 1..Len(st.l) : st.l[i] = PyStr("weight")
                    THEN Raised ELSE WeightInStops(stops, p + 1)
               [] OTHER -> Raised               \* "weight" in None / <number>

\* find_load._extract_weight
_extract_weight(order) ==
    IF ~IsDict(order) THEN Raised
    ELSE LET stops == Or(Get(order, "stops"), EmptyList)
         IN  CASE IsList(stops) -> WeightInStops(stops.l, 1)
               [] IsStr(stops) ->               \* the loop visits the characters
                    WeightInStops([i \in 1..Len(stops.s) |-> Str(<<stops.s[i]>>)], 1)
               [] IsDict(stops) ->              \* the loop visits the keys
                    IF \E k \in DOMAIN stops.d : Contains(S(k), S("weight")) THEN Raised ELSE None
               [] OTHER -> Raised               \* a number is not iterable

\* (st.get("stop_type") or "").upper() raises: st is no mapping or its stop_type no str
UpperTypeRaises(st) == ~IsDict(st) \/ ~IsStr(Or(Get(st, "stop_type"), EmptyStr))

\* (st.get("stop_type") or "").upper()
UpperType(st) == Upper(Or(Get(st, "stop_type"), EmptyStr).s)

\* a mutant of _extract_origin_destination: origin and destination are taken
\* from the first and the last stop
_extract_origin_destination_first_last(order) ==
    IF ~IsDict(order) THEN Raised
    ELSE LET stops == Or(Get(order, "stops"), EmptyList)
         IN  IF ~IsList(stops) \/ ~Truthy(stops) THEN Tuple(<<None, None>>)
             ELSE IF \E i \in 1..Len(stops.l) : UpperTypeRaises(stops.l[i]) THEN Raised
             ELSE Tuple(<<LocationOf(stops.l[1]), LocationOf(stops.l[Len(stops.l)])>>)

\* find_load._extract_origin_destination (to_loc builds the same dict as LocationOf)
_extract_origin_destination(order) ==
    IF ~IsDict(order) THEN Raised
    ELSE LET stops == Or(Get(order, "stops"), EmptyList)
         IN  IF ~IsList(stops) \/ ~Truthy(stops) THEN Tuple(<<None, None>>)
             ELSE IF \E i \in 1..Len(stops.l) : UpperTypeRaises(stops.l[i]) THEN Raised
             ELSE LET pus == {i \in 1..Len(stops.l) : UpperType(stops.l[i]) \in PickupCodes}
                      sos == {i \in 1..Len(stops.l) : UpperType(stops.l[i]) \in DropoffCodes}
                  IN  Tuple(<<IF pus = {} THEN None
                              ELSE LocationOf(stops.l[CHOOSE i \in pus : \A j \in pus : i <= j]),
                              IF sos = {} THEN None
                              ELSE LocationOf(stops.l[CHOOSE i \in sos : \A j \in sos : j <= i])>>)

PickupQuals == {S("OQ"), S("ORDER NUMBER")}
PoQuals == {S("PO"), S("PURCHASE ORDER NUMBER")}

\* _extract_reference_numbers, the inner loop from position q on, with the
\* values found so far: Tuple(<<pickup, po>>) or Raised
RECURSIVE RefNumbersInRefs(_, _, _)
RefNumbersInRefs(refs, q, acc) ==
    IF q > Len(refs) THEN acc
    ELSE IF ~IsDict(refs[q]) THEN Raised
    ELSE LET ref == refs[q]
             qual == Or(Or(Get(ref, "reference_qual"), Get(ref, "__referenceQualDescr")), EmptyStr)
             val == Get(ref, "reference_number")
         IN  IF ~IsStr(qual) THEN Raised        \* .upper()
             ELSE IF ~Truthy(val) THEN RefNumbersInRefs(refs, q + 1, acc)
             ELSE RefNumbersInRefs(refs, q + 1,
                    Tuple(<<IF Upper(qual.s) \in PickupQuals /\ ~Truthy(acc.l[1])
                            THEN Str(StrOf(val)) ELSE acc.l[1],
                            IF Upper(qual.s) \in PoQuals /\ ~Truthy(acc.l[2])
                            THEN Str(StrOf(val)) ELSE acc.l[2]>>))

\* _extract_reference_numbers, the outer loop from position p on
RECURSIVE RefNumbersInStops(_, _, _)
RefNumbersInStops(stops, p, acc) ==
    IF p > Len(stops) THEN acc
    ELSE IF ~IsDict(stops[p]) THEN Raised
    ELSE LET refs == Or(Get(stops[p], "referenceNumbers"), EmptyList)
         IN  IF IterRaises(refs) THEN Raised
             ELSE LET got == RefNumbersInRefs(refs.l, 1, acc)
                  IN  IF IsRaised(got) THEN Raised
                      ELSE IF Truthy(got.l[1]) /\ Truthy(got.l[2]) THEN got     \* break
                      ELSE RefNumbersInStops(stops, p + 1, got)

\* find_load._extract_reference_numbers
_extract_reference_numbers(order) ==
    IF ~IsDict(order) THEN Raised
    ELSE LET stops == Or(Get(order, "stops"), EmptyList)
         IN  IF IterRaises(stops) THEN Raised
             ELSE RefNumbersInStops(stops.l, 1, Tuple(<<None, None>>))

\* the first truthy value of the key among the stops of the given type, else None
\* (the `x = x or st.get(key)` chain of _extract_overall_windows)
FirstOfType(stops, ty, key) ==
    LET hits == {i \in 1..Len(stops) : stops[i].d["type"] = ty /\ Truthy(Get(stops[i], key))}
    IN  IF hits = {} THEN None
        ELSE Get(stops[CHOOSE i \in hits : \A j \in hits : i <= j], key)

\* a mutant of _extract_overall_windows: the pickup window is read from the first stop
_extract_overall_windows_first_stop(stops) ==
    <<IF stops = <<>> THEN None ELSE Get(stops[1], "stop_timestamp_open"),
      IF stops = <<>> THEN None ELSE Get(stops[1], "stop_timestamp_close"),
      FirstOfType(stops, destination, "stop_timestamp_open"),
      FirstOfType(stops, destination, "stop_timestamp_close")>>

\* find_load._extract_overall_windows, of the list _extract_stops returned
_extract_overall_windows(stops) ==
    <<FirstOfType(stops, origin, "stop_timestamp_open"),
      FirstOfType(stops, origin, "stop_timestamp_close"),
      FirstOfType(stops, destination, "stop_timestamp_open"),
      FirstOfType(stops, destination, "stop_timestamp_close")>>

\* s.replace(c, "") for a character c
RemoveChar(s, c) == SelectSeq(s, LAMBDA x : x # c)

assigned == PyStr("assigned")

\* _extract_contacts, one turn of the loop: the contacts to append, or Raised
ContactOf(order, key) ==
    LET usr == Or(Get(order, key), EmptyDict)
    IN  IF ~IsDict(usr) THEN Raised            \* usr.get
        ELSE LET name == Get(usr, "name")
                 email == Get(usr, "email_address")
                 phone == Get(usr, "phone")
             IN  IF Truthy(name) \/ Truthy(email) \/ Truthy(phone)
                 THEN List(<<MkDict({"name", "email", "phone", "type"},
                          LAMBDA k : CASE k = "name" -> Or(name, EmptyStr)
                                       [] k = "email" -> Or(email, EmptyStr)
                                       [] k = "phone" ->
                                            IF Truthy(phone)
                                            THEN Str(RemoveChar(RemoveChar(StrOf(phone), "-"), " "))
                                            ELSE EmptyStr
                                       [] k = "type" -> assigned)>>)
                 ELSE EmptyList

\* find_load._extract_contacts
_extract_contacts(order) ==
    IF ~IsDict(order) THEN Raised
    ELSE IF IsRaised(ContactOf(order, "operationsUser"))
            \/ IsRaised(ContactOf(order, "enteredUser")) THEN Raised
    ELSE List(ContactOf(order, "operationsUser").l \o ContactOf(order, "enteredUser").l)

\* find_load._extract_power_units
_extract_power_units(order) ==
    IF ~IsDict(order) THEN Raised
    ELSE LET m == FirstMovement(order)
         IN  IF m = NotFound THEN Tuple(<<None, None>>)
             ELSE IF ~IsDict(m) THEN Raised     \* m.get
             ELSE Tuple(<<Get(m, "carrier_tractor"), Get(m, "carrier_trailer")>>)

\* " \n".join(texts), texts being the str() of the truthy comments from position q on
RECURSIVE JoinComments(_, _, _)
JoinComments(notes, q, first) ==
    IF q > Len(notes) THEN <<>>
    ELSE LET c == Get(notes[q], "comments")
         IN  IF Truthy(c)
             THEN (IF first THEN <<>> ELSE <<" ", "\n">>) \o StrOf(c) \o JoinComments(notes, q + 1, FALSE)
             ELSE JoinComments(notes, q + 1, first)

\* _extract_sale_notes, the loop over the stops from position p on
RECURSIVE SaleNotesInStops(_, _)
SaleNotesInStops(stops, p) ==
    IF p > Len(stops) THEN None
    ELSE IF UpperTypeRaises(stops[p]) THEN Raised
    ELSE IF UpperType(stops[p]) \in PickupCodes
         THEN LET notes == Or(Get(stops[p], "stopNotes"), EmptyList)
              IN  IF IterRaises(notes) THEN Raised
                  ELSE IF \E i \in 1..Len(notes.l) : ~IsDict(notes.l[i]) THEN Raised  \* n.get
                  ELSE LET joined == JoinComments(notes.l, 1, TRUE)
                       IN  IF \E i \in 1..Len(notes.l) : Truthy(Get(notes.l[i], "comments"))
                           THEN Str(Slice(joined, 0, 2000))
                           ELSE None               \* break
         ELSE SaleNotesInStops(stops, p + 1)

\* find_load._extract_sale_notes
_extract_sale_notes(order) ==
    IF ~IsDict(order) THEN Raised
    ELSE LET stops == Or(Get(order, "stops"), EmptyList)
         IN  IF IterRaises(stops) THEN Raised
             ELSE SaleNotesInStops(stops.l, 1)

\* bool(order.get(key)) if order.get(key) is not None else None
FlagOf(order, key) ==
    IF IsNone(Get(order, key)) THEN None ELSE Bool(Truthy(Get(order, key)))


-----------------------------------------------------------------------------
(* Load Transformer: one order *)

load_upsert == PyStr("load_upsert")
owned == PyStr("owned")

MandatoryKeys == {"event_type", "custom_load_id", "status", "type"}

\* the extractors of one turn of the loop, in the order the code calls them
Extracted(order) ==
    [custom_load_id |-> _get_order_id(order),
     status |-> _derive_status(order),
     equipment_type |-> _extract_equipment(order),
     miles |-> _extract_miles(order),
     max_buy |-> _extract_max_buy(order),
     posted_carrier_rate |-> _extract_posted_carrier_rate(order),
     weight |-> _extract_weight(order),
     origin_destination |-> _extract_origin_destination(order),
     stops |-> _extract_stops(order),
     reference_numbers |-> _extract_reference_numbers(order),
     contacts |-> _extract_contacts(order),
     power_units |-> _extract_power_units(order),
     sale_notes |-> _extract_sale_notes(order)]

\* the value the loop body holds for each optional key of the payload
OptionalValue(order, x, k) ==
    CASE k = "equipment_type_name" -> x.equipment_type
      [] k = "miles" -> x.miles
      [] k = "max_buy" -> x.max_buy
      [] k = "posted_carrier_rate" -> x.posted_carrier_rate
      [] k = "weight" -> x.weight
      [] k = "commodity_type" -> Get(order, "commodity")
      [] k = "number_of_pieces" -> Get(order, "pieces")
      [] k = "is_partial" -> FlagOf(order, "ltl")
      [] k = "is_hazmat" -> FlagOf(order, "hazmat")
      [] k = "is_hazardous" -> FlagOf(order, "hazmat")
      [] k = "is_team_required" -> FlagOf(order, "teams_required")
      [] k = "bol_number" -> Get(order, "blnum")
      [] k = "truck_number" -> x.power_units.l[1]
      [] k = "trailer_number" -> x.power_units.l[2]
      [] k = "branch" -> Get(order, "revenue_code_id")
      [] k = "customer_id" -> Get(order, "customer_id")
      [] k = "origin" -> x.origin_destination.l[1]
      [] k = "destination" -> x.origin_destination.l[2]
      [] k = "stops" -> x.stops
      [] k = "pickup_number" -> x.reference_numbers.l[1]
      [] k = "po_number" -> x.reference_numbers.l[2]
      [] k = "pickup_date_open" -> _extract_overall_windows(x.stops.l)[1]
      [] k = "pickup_date_close" -> _extract_overall_windows(x.stops.l)[2]
      [] k = "delivery_date_open" -> _extract_overall_windows(x.stops.l)[3]
      [] k = "delivery_date_close" -> _extract_overall_windows(x.stops.l)[4]
      [] k = "contacts" -> x.contacts
      [] k = "sale_notes" -> x.sale_notes

\* the optional keys guarded by `is not None`; the others are guarded by truthiness
NotNoneKeys ==
    {"miles", "max_buy", "posted_carrier_rate", "weight", "number_of_pieces",
     "is_partial", "is_hazmat", "is_hazardous", "is_team_required"}

TruthyKeys ==
    {"equipment_type_name", "commodity_type", "bol_number", "truck_number",
     "trailer_number", "branch", "customer_id", "origin", "destination", "stops",
     "pickup_number", "po_number", "pickup_date_open", "pickup_date_close",
     "delivery_date_open", "delivery_date_close", "contacts", "sale_notes"}

\* a mutant of OptionalKeys: every optional key is guarded by `is not None`
OptionalKeys_all_not_none(order, x) ==
    {k \in NotNoneKeys \cup TruthyKeys : ~IsNone(OptionalValue(order, x, k))}

\* a mutant of OptionalKeys: every optional key is guarded by truthiness
OptionalKeys_all_truthy(order, x) ==
    {k \in NotNoneKeys \cup TruthyKeys : Truthy(OptionalValue(order, x, k))}

\* the optional keys the chain of `if` statements adds to the payload
OptionalKeys(order, x) ==
    {k \in NotNoneKeys : ~IsNone(OptionalValue(order, x, k))}
    \cup {k \in TruthyKeys : Truthy(OptionalValue(order, x, k))}

\* _transform_orders_to_load_event, the body of the try: the payload of one
\* order, or Raised when an extractor raises
LoadEventOf(order) ==
    LET x == Extracted(order)
    IN  IF \E f \in DOMAIN x : IsRaised(x[f]) THEN Raised
        ELSE MkDict(MandatoryKeys \cup OptionalKeys(order, x),
                    LAMBDA k : CASE k = "event_type" -> load_upsert
                                 [] k = "custom_load_id" -> x.custom_load_id
                                 [] k = "status" -> x.status
                                 [] k = "type" -> owned
                                 [] OTHER -> OptionalValue(order, x, k))

-----------------------------------------------------------------------------
(* Load Transformer: the loop of _transform_orders_to_load_event *)

\* a mutant of AfterFault: the loop ends at the first order that raises
AfterFault_break(i, n) == n

\* `except Exception: continue`: the number of orders consumed after the order
\* at 0-based index i of n raised
AfterFault(i, n) == i + 1

\* the try body ran to payloads.append(payload)
AppendPayload ==
    /\ pc = "loop"
    /\ idx < Len(orders)
    /\ ~IsRaised(LoadEventOf(orders[idx + 1]))
    /\ payloads' = Append(payloads, LoadEventOf(orders[idx + 1]))
    /\ idx' = idx + 1
    /\ UNCHANGED <<fn, input, output, orders, pc, env, redis, calls, log>>

\* the try body raised: "Skip problematic order, continue"
SkipOrder ==
    /\ pc = "loop"
    /\ idx < Len(orders)
    /\ IsRaised(LoadEventOf(orders[idx + 1]))
    /\ idx' = AfterFault(idx, Len(orders))
    /\ UNCHANGED <<fn, input, output, orders, payloads, pc, env, redis, calls, log>>

\* return payloads
Return ==
    /\ pc = "loop"
    /\ idx = Len(orders)
    /\ pc' = "returned"
    /\ UNCHANGED <<fn, input, output, orders, idx, payloads, env, redis, calls, log>>

Next == AppendPayload \/ SkipOrder \/ Return

\* Inputs.  (1) one order whose stops vary in type code and scheduled arrival;
\* (2) one order whose scalar attributes vary; (3) batches of up to MaxOrders
\* orders, some of which make the loop body raise.
LoadCodes == {PyStr("PU"), PyStr("SO"), PyStr("XX"), PyStr("PICK")}
EarlyValues == {Absent, PyStr("20240101080000-0600"), PyStr("2024")}

LoadStop(code, early, p) ==
    Record({"stop_type", "city_name", "state", "sched_arrive_early"},
           LAMBDA k : CASE k = "stop_type" -> code
                        [] k = "city_name" -> CityName(p)
                        [] k = "state" -> PyStr("TX")
                        [] k = "sched_arrive_early" -> early)

OrderWithStops(stops) ==
    Dict([id |-> PyStr("123"), status |-> PyStr("A"), stops |-> List(stops)])

\* the order of the end-to-end example
ExampleOrder ==
    OrderWithStops(<<
        Dict([stop_type |-> PyStr("PU"), city_name |-> PyStr("Dallas"), state |-> PyStr("TX"),
              sched_arrive_early |-> PyStr("20240101080000-0600")]),
        Dict([stop_type |-> PyStr("SO"), city_name |-> PyStr("Austin"), state |-> PyStr("TX")])>>)

IdValues == {Absent, None, PyStr("123"), PyStr(" 45 "), Num(7)}
PiecesValues == {Absent, None, PyStr(""), Num(0), Num(3)}
CommodityValues == {Absent, PyStr(""), PyStr("Steel")}
FlagValues == {Absent, None, Bool(FALSE), Num(1)}

ScalarOrder(id, pieces, commodity, ltl) ==
    Record({"id", "pieces", "commodity", "ltl", "status"},
           LAMBDA k : CASE k = "id" -> id
                        [] k = "pieces" -> pieces
                        [] k = "commodity" -> commodity
                        [] k = "ltl" -> ltl
                        [] k = "status" -> PyStr("A"))

\* orders that differ from {id: "9"} in one attribute
OtherAttributes ==
    {<<"hazmat", Bool(TRUE)>>, <<"teams_required", Num(0)>>, <<"blnum", PyStr("B1")>>,
     <<"blnum", PyStr("")>>, <<"revenue_code_id", PyStr("ATL")>>, <<"customer_id", PyStr("C9")>>,
     <<"customer_id", None>>, <<"__equipmentTypeDescr", PyStr(" Van ")>>,
     <<"bill_distance", PyStr("12.5")>>, <<"bill_distance", Num(0)>>,
     <<"freightGroup", Dict([lme_order_id |-> Num(88)])>>,
     <<"movement", List(<<Dict([carrier_tractor |-> PyStr("T1"), carrier_trailer |-> PyStr(""),
                                 max_buy |-> PyStr("100.50"), target_pay |-> Num(90),
                                 move_distance |-> PyStr("300"),
                                 brokerage_status |-> PyStr("COVERED")])>>)>>,
     <<"movement", List(<<Dict([max_buy |-> Num(0), move_distance |-> Num(0)])>>)>>,
     <<"operationsUser", Dict([name |-> PyStr("Ann"), phone |-> PyStr("555-01 02")])>>,
     <<"enteredUser", Dict([email_address |-> PyStr("b@x")])>>,
     <<"stops", List(<<Dict([stop_type |-> PyStr("PU"), weight |-> PyStr("0"),
                             notes |-> PyStr("dock 4"),
                             referenceNumbers |-> List(<<
                                 Dict([reference_qual |-> PyStr("po"), reference_number |-> Num(17)]),
                                 Dict([__referenceQualDescr |-> EquipmentInitial,
                                       reference_number |-> PyStr("Reefer")])>>),
                             stopNotes |-> List(<<Dict([comments |-> PyStr("call")]),
                                                  Dict([comments |-> PyStr("ahead")])>>)])>>)>>}

AttributeOrder(kv) ==
    Dict([k \in {"id", kv[1]} |-> IF k = kv[1] THEN kv[2] ELSE PyStr("9")])

\* the elements of the batches: three well-formed orders and five that raise
BatchOrders ==
    {ExampleOrder,
     Dict([id |-> PyStr("9")]),
     OrderWithStops(<<LoadStop(PyStr("XX"), Absent, 1), LoadStop(PyStr("PU"), Absent, 2)>>),
     None,
     PyStr("order"),
     Dict([id |-> PyStr("5"), status |-> Num(5)]),
     Dict([id |-> PyStr("6"), stops |-> List(<<LoadStop(PyStr("PU"), Absent, 1), None>>)]),
     Dict([id |-> PyStr("7"), operationsUser |-> PyStr("Ann")])}

\* (4) one order whose first movement varies in its pay fields
RateValues == {Absent, None, PyStr("abc"), Num(90), PyStr("1.5"), Num(0)}

RateOrder(override_max_pay, target_pay, target_pay_n) ==
    Dict([id |-> PyStr("9"),
          movement |-> List(<<
              Record({"override_max_pay", "target_pay", "target_pay_n"},
                     LAMBDA k : CASE k = "override_max_pay" -> override_max_pay
                                  [] k = "target_pay" -> target_pay
                                  [] k = "target_pay_n" -> target_pay_n)>>)])

InitLoad ==
    \/ \E n \in 0..MaxStops : \E codes \in [1..n -> LoadCodes] : \E early \in [1..n -> EarlyValues] :
          orders = <<OrderWithStops([p \in 1..n |-> LoadStop(codes[p], early[p], p)])>>
    \/ \E id \in IdValues : \E pieces \in PiecesValues :
       \E commodity \in CommodityValues : \E ltl \in FlagValues :
          orders = <<ScalarOrder(id, pieces, commodity, ltl)>>
    \/ \E kv \in OtherAttributes : orders = <<AttributeOrder(kv)>>
    \/ \E a \in RateValues : \E b \in RateValues : \E c \in RateValues :
          orders = <<RateOrder(a, b, c)>>
    \/ \E n \in 0..MaxOrders : orders \in [1..n -> BatchOrders]

Init ==
    /\ NoSweep
    /\ InitLoad
    /\ fn = "_transform_orders_to_load_event"
    /\ input = None
    /\ output = None
    /\ idx = 0
    /\ payloads = <<>>
    /\ pc = "loop"

Spec == Init /\ [][Next]_vars

-----------------------------------------------------------------------------
(* Properties of the Load Transformer *)

\* the payloads of the orders whose loop body does not raise, in input order
RECURSIVE KeptPayloads(_)
KeptPayloads(os) ==
    IF os = <<>> THEN <<>>
    ELSE IF IsRaised(LoadEventOf(Head(os))) THEN KeptPayloads(Tail(os))
    ELSE <<LoadEventOf(Head(os))>> \o KeptPayloads(Tail(os))

\* C4: no top-level key of a payload holds None or the empty string.
C4_NoEmptyPlaceholder ==
    \A i \in 1..Len(payloads) : \A k \in DOMAIN payloads[i].d :
        payloads[i].d[k] # None /\ payloads[i].d[k] # EmptyStr

\* C5: the loop never raises and returns, in input order, exactly the payloads
\* of the orders whose own transformation does not raise.
C5_BatchIndependent ==
    /\ pc \in {"loop", "returned"}
    /\ idx <= Len(orders)
    /\ payloads = KeptPayloads(SubSeq(orders, 1, idx))
    /\ pc = "returned" => payloads = KeptPayloads(orders)

\* a faulting order between two good ones is dropped and the good ones are kept
C5_Witness ==
    /\ pc = "returned"
    /\ Len(orders) = 2
    /\ IsRaised(LoadEventOf(orders[1]))
    /\ payloads = <<LoadEventOf(ExampleOrder)>>

\* the orders of a single-order batch whose stops are a non-empty list of mappings
SingleOrderWithStops ==
    /\ pc = "returned"
    /\ Len(orders) = 1
    /\ HasStopRecords(orders[1])
    /\ Len(payloads) = 1

\* the location of the stop of the given type in the payload's "stops", None if
\* there is no such stop or no "stops"
LocationOfRole(payload, role) ==
    IF ~Has(payload, "stops") THEN None
    ELSE LET ss == Get(payload, "stops").l
             hits == {i \in 1..Len(ss) : ss[i].d["type"] = role}
         IN  IF hits = {} THEN None ELSE ss[CHOOSE i \in hits : TRUE].d["location"]

\* C7: payload origin / destination are the locations of the stops typed origin /
\* destination in the payload's stops, for every order with a non-empty stop list.
C7_OriginFromClassifier ==
    SingleOrderWithStops =>
        /\ Has(payloads[1], "origin")
        /\ Get(payloads[1], "origin") = LocationOfRole(payloads[1], origin)
        /\ Has(payloads[1], "destination")
        /\ Get(payloads[1], "destination") = LocationOfRole(payloads[1], destination)

\* the raw stop the payload's origin stop was built from: the one in its city
\* (every raw stop of the inputs has a city of its own)
RawOriginStops(order, payload) ==
    LET loc == LocationOfRole(payload, origin)
    IN  {i \in 1..Len(RawStops(order)) :
            loc # None /\ Get(RawStops(order)[i], "city_name") = Get(loc, "city")}

\* C10: the end-to-end example gives custom_load_id '123', status 'available',
\* origin.city 'Dallas', destination.city 'Austin', pickup_date_open
\* '2024-01-01T08:00:00'; and pickup_date_open is the normalized
\* sched_arrive_early of the stop classified origin, omitted when that is None.
C10_EndToEnd ==
    /\ (pc = "returned" /\ orders = <<ExampleOrder>>) =>
          /\ Len(payloads) = 1
          /\ Get(payloads[1], "custom_load_id") = PyStr("123")
          /\ Get(payloads[1], "status") = PyStr("available")
          /\ Get(Get(payloads[1], "origin"), "city") = PyStr("Dallas")
          /\ Get(Get(payloads[1], "destination"), "city") = PyStr("Austin")
          /\ Get(payloads[1], "pickup_date_open") = PyStr("2024-01-01T08:00:00")
    /\ SingleOrderWithStops =>
          \E i \in RawOriginStops(orders[1], payloads[1]) :
              LET ts == format_timestamp(Get(RawStops(orders[1])[i], "sched_arrive_early"))
              IN  IF ts = None THEN ~Has(payloads[1], "pickup_date_open")
                  ELSE Get(payloads[1], "pickup_date_open") = ts
    /\ (pc = "returned" /\ Len(orders) = 1 /\ Len(payloads) = 1 /\ ~HasStopRecords(orders[1])) =>
          ~Has(payloads[1], "pickup_date_open")

\* the origin is not the first stop of the payload, and it alone has a window
C10_Witness ==
    /\ SingleOrderWithStops
    /\ RawCodes(orders[1]) = <<S("SO"), S("PU"), S("SO")>>
    /\ Get(RawStops(orders[1])[1], "sched_arrive_early") = PyStr("2024")
    /\ Get(RawStops(orders[1])[3], "sched_arrive_early") = None
    /\ Get(payloads[1], "pickup_date_open") = PyStr("2024-01-01T08:00:00")

-----------------------------------------------------------------------------
(* find_load_utils: safe_get *)

\* longest key path handed to safe_get
MaxPath == 3

\* the keys of a path: a str key or an int key
Key(s) == [k |-> "key", s |-> s]
Index(n) == [k |-> "idx", n |-> n]

\* the for-loop of safe_get: the value the path leads to, NotFound where the
\* loop returns the default
RECURSIVE Traverse(_, _)
Traverse(cur, keys) ==
    IF keys = <<>> THEN cur
    ELSE LET k == Head(keys)
         IN  IF k.k = "idx"
             THEN IF IsList(cur) /\ 0 <= k.n /\ k.n < Len(cur.l)
                  THEN Traverse(cur.l[k.n + 1], Tail(keys))
                  ELSE NotFound
             ELSE IF IsDict(cur) /\ Has(cur, k.s)
                  THEN Traverse(cur.d[k.s], Tail(keys))
                  ELSE NotFound

\* a mutant of safe_get: a None found at the end of the path is returned as it is
safe_get_returns_none(obj, keys, default) ==
    LET cur == Traverse(obj, keys)
    IN  IF cur.t = "notfound" THEN default ELSE cur

\* find_load_utils.safe_get(obj, *keys, default=default)
safe_get(obj, keys, default) ==
    LET cur == Traverse(obj, keys)
    IN  IF cur.t = "notfound" \/ IsNone(cur) THEN default ELSE cur

\* safe_get(obj, key)
SafeGet1(obj, key) == safe_get(obj, <<Key(key)>>, None)

-----------------------------------------------------------------------------
(* find_load_utils: the Compact-View Mapper *)

\* a mutant of extract_pickup_and_delivery: the first SO/DESTINATION stop is the delivery
extract_pickup_and_delivery_first_delivery(order) ==
    LET stops == Or(safe_get(order, <<Key("stops")>>, EmptyList), EmptyList)
    IN  IF IterRaises(stops) THEN Raised
        ELSE IF \E i \in 1..Len(stops.l) : UpperTypeRaises(stops.l[i]) THEN Raised
        ELSE IF stops.l = <<>> THEN Tuple(<<None, None>>)
        ELSE LET n == Len(stops.l)
                 pus == {i \in 1..n : UpperType(stops.l[i]) \in PickupCodes}
                 sos == {i \in 1..n : UpperType(stops.l[i]) \in DropoffCodes}
             IN  Tuple(<<IF pus = {} THEN stops.l[1]
                         ELSE stops.l[CHOOSE i \in pus : \A j \in pus : i <= j],
                         IF sos = {} THEN stops.l[n]
                         ELSE stops.l[CHOOSE i \in sos : \A j \in sos : i <= j]>>)

\* extract_pickup_and_delivery: (pickup, delivery), or Raised
extract_pickup_and_delivery(order) ==
    LET stops == Or(safe_get(order, <<Key("stops")>>, EmptyList), EmptyList)
    IN  IF IterRaises(stops) THEN Raised
        ELSE IF \E i \in 1..Len(stops.l) : UpperTypeRaises(stops.l[i]) THEN Raised
        ELSE IF stops.l = <<>> THEN Tuple(<<None, None>>)
        ELSE LET n == Len(stops.l)
                 pus == {i \in 1..n : UpperType(stops.l[i]) \in PickupCodes}
                 sos == {i \in 1..n : UpperType(stops.l[i]) \in DropoffCodes}
                 \* `not pickup` also lets a later stop replace an empty one, which
                 \* cannot be a PU/ORIGIN stop
                 pickup == IF pus = {} THEN None
                           ELSE stops.l[CHOOSE i \in pus : \A j \in pus : i <= j]
                 delivery == IF sos = {} THEN None
                             ELSE stops.l[CHOOSE i \in sos : \A j \in sos : j <= i]
             IN  Tuple(<<IF ~Truthy(pickup) THEN stops.l[1] ELSE pickup,
                         IF ~Truthy(delivery) THEN stops.l[n] ELSE delivery>>)

\* ts = format_timestamp if format_ts else (lambda x: x)
Ts(format_ts, x) == IF format_ts THEN format_timestamp(x) ELSE x

pickup == PyStr("pickup")
delivery == PyStr("delivery")
other == PyStr("other")

\* map_stop: the type of a stop
MapStopType(st_type) ==
    CASE st_type \in PickupCodes -> pickup
      [] st_type \in DropoffCodes -> delivery
      [] st_type \in PickCodes -> pick
      [] st_type \in DropCodes -> drop
      [] OTHER -> other

\* map_stop
map_stop(stop, format_ts) ==
    IF UpperTypeRaises(stop) THEN Raised
    ELSE Dict([type |-> MapStopType(UpperType(stop)),
               location_name |-> SafeGet1(stop, "location_name"),
               address |-> SafeGet1(stop, "address"),
               city |-> SafeGet1(stop, "city_name"),
               state |-> SafeGet1(stop, "state"),
               zip |-> SafeGet1(stop, "zip_code"),
               phone |-> SafeGet1(stop, "phone"),
               scheduled_early |-> Ts(format_ts, SafeGet1(stop, "sched_arrive_early")),
               scheduled_late |-> Ts(format_ts, SafeGet1(stop, "sched_arrive_late")),
               actual_arrival |-> Ts(format_ts, SafeGet1(stop, "actual_arrival")),
               status |-> SafeGet1(stop, "__statusDescr"),
               load_type |-> SafeGet1(stop, "__loadUnloadDescr"),
               stop_order |-> Or(Or(SafeGet1(stop, "order_sequence"),
                                    SafeGet1(stop, "movement_sequence")), Num(0))])

\* map_find_load_payload: the dict literal of the "pickup" / "delivery" sub-object
EndpointDict(st, format_ts) ==
    Dict([location_name |-> SafeGet1(st, "location_name"),
          address |-> SafeGet1(st, "address"),
          city |-> SafeGet1(st, "city_name"),
          state |-> SafeGet1(st, "state"),
          zip |-> SafeGet1(st, "zip_code"),
          phone |-> SafeGet1(st, "phone"),
          scheduled_early |-> Ts(format_ts, SafeGet1(st, "sched_arrive_early")),
          scheduled_late |-> Ts(format_ts, SafeGet1(st, "sched_arrive_late")),
          actual_arrival |-> Ts(format_ts, SafeGet1(st, "actual_arrival")),
          status |-> SafeGet1(st, "__statusDescr"),
          load_type |-> SafeGet1(st, "__loadUnloadDescr")])

\* a mutant of EndpointOf: a missing stop gives an empty sub-object
EndpointOf_empty_when_missing(stop, format_ts) ==
    IF Truthy(stop) THEN EndpointDict(stop, format_ts) ELSE EmptyDict

\* the sub-object of `pickup or {}` / `delivery or {}`
EndpointOf(stop, format_ts) == EndpointDict(Or(stop, EmptyDict), format_ts)

internal_next_steps ==
    PyStr("1. Pitch the load with details: equipment, pickup, delivery, stops, distance, weight, commodity.\n\n2. Ask the driver what number they have in mind. If they ask for the posted rate, tell them there is no posted rate and ask again.\n\n3. Internal note: schedule is strict. Do not transfer. Pickup and delivery times cannot be changed.")

\* stops = [map_stop(st, format_ts=format_ts) for st in stops_raw]
MapStops(stops_raw, format_ts) ==
    IF \E i \in 1..Len(stops_raw.l) : IsRaised(map_stop(stops_raw.l[i], format_ts))
    THEN Raised
    ELSE List([i \in 1..Len(stops_raw.l) |-> map_stop(stops_raw.l[i], format_ts)])

\* map_find_load_payload
map_find_load_payload(mcleod_data, format_ts) ==
    LET order == Or(mcleod_data, EmptyDict)
        pd == extract_pickup_and_delivery(order)
    IN  IF IsRaised(pd) THEN Raised
        ELSE LET stops_raw == Or(safe_get(order, <<Key("stops")>>, EmptyList), EmptyList)
                 stops == MapStops(stops_raw, format_ts)
                 pu == Or(pd.l[1], EmptyDict)
             IN  IF IsRaised(stops) THEN Raised
                 ELSE Dict([load_number |-> SafeGet1(order, "id"),
                            status |-> SafeGet1(order, "__statusDescr"),
                            equipment_type |-> SafeGet1(order, "__equipmentTypeDescr"),
                            weight |-> SafeGet1(order, "weight"),
                            weight_unit |-> SafeGet1(order, "weight_um"),
                            pieces |-> SafeGet1(order, "pieces"),
                            cases |-> SafeGet1(pu, "cases"),
                            pallets |-> SafeGet1(order, "pallets_how_many"),
                            commodity |-> SafeGet1(order, "commodity"),
                            distance |-> SafeGet1(order, "bill_distance"),
                            distance_unit |-> SafeGet1(order, "bill_distance_um"),
                            bol_number |-> SafeGet1(order, "blnum"),
                            shipment_id |-> SafeGet1(order, "shipment_id"),
                            pickup |-> EndpointOf(pd.l[1], format_ts),
                            delivery |-> EndpointOf(pd.l[2], format_ts),
                            stops |-> stops,
                            customer |->
                                Dict([id |-> SafeGet1(order, "customer_id"),
                                      name |-> safe_get(order, <<Key("customer"), Key("name")>>, None)]),
                            ordered_date |-> SafeGet1(order, "ordered_date"),
                            brokerage |-> safe_get(order, <<Key("movement"), Index(0), Key("brokerage")>>, None),
                            notes |-> SafeGet1(order, "planning_comment"),
                            internal_next_steps |-> internal_next_steps])

-----------------------------------------------------------------------------
(* safe_get applied to every path of up to MaxPath keys *)

SafeGetObjects ==
    {Dict([id |-> PyStr("123"),
           stops |-> None,
           zero |-> Num(0),
           movement |-> List(<<Dict([brokerage |-> PyStr("B1"), n |-> None]), None>>)]),
     List(<<List(<<PyStr("x")>>), Dict([n |-> Num(1)])>>),
     PyStr("abc"), None, Num(5)}

SafeGetKeys ==
    {Key("movement"), Key("brokerage"), Key("n"), Key("zero"), Key("missing"),
     Index(0), Index(1), Index(2), Index(-1)}

SafeGetDefaults == {None, PyStr("dflt"), EmptyList}

InitSafeGet ==
    /\ \E obj \in SafeGetObjects : \E n \in 0..MaxPath : \E keys \in [1..n -> SafeGetKeys] :
       \E default \in SafeGetDefaults :
           input = [obj |-> obj, keys |-> keys, default |-> default]
    /\ InitIdle

SafeGet ==
    /\ fn = ""
    /\ fn' = "safe_get"
    /\ output' = safe_get(input.obj, input.keys, input.default)
    /\ UNCHANGED <<input, orders, idx, payloads, pc, env, redis, calls, log>>

NextSafeGet == SafeGet

SpecSafeGet == InitSafeGet /\ [][NextSafeGet]_vars

\* the key k finds a value in cur: a str key a mapping containing it, an int
\* key a list with that index in range
Finds(cur, k) ==
    IF k.k = "key" THEN cur.t = "dict" /\ k.s \in DOMAIN cur.d
    ELSE cur.t = "list" /\ k.n \in 0..(Len(cur.l) - 1)

Child(cur, k) == IF k.k = "key" THEN cur.d[k.s] ELSE cur.l[k.n + 1]

\* the value the first m keys of the path lead to, if every one of them finds one
RECURSIVE ValueAt(_, _, _)
ValueAt(obj, keys, m) == IF m = 0 THEN obj ELSE Child(ValueAt(obj, keys, m - 1), keys[m])

\* every key of the path finds a value
RECURSIVE Resolves(_, _, _)
Resolves(obj, keys, m) ==
    m = 0 \/ (Resolves(obj, keys, m - 1) /\ Finds(ValueAt(obj, keys, m - 1), keys[m]))

\* C15: safe_get never raises; it returns the nested value when every key of the
\* path finds one and that value is not None, and the default otherwise.
C15_SafeGetTotal ==
    fn = "safe_get" =>
        /\ ~IsRaised(output)
        /\ LET n == Len(input.keys)
           IN  IF Resolves(input.obj, input.keys, n)
                  /\ ValueAt(input.obj, input.keys, n) # None
               THEN output = ValueAt(input.obj, input.keys, n)
               ELSE output = input.default

\* a three-key path that ends in None, with a default that is not None
C15_Witness ==
    /\ fn = "safe_get"
    /\ input.default = PyStr("dflt")
    /\ input.keys = <<Key("movement"), Index(0), Key("n")>>
    /\ Resolves(input.obj, input.keys, 3)
    /\ output = PyStr("dflt")

-----------------------------------------------------------------------------
(* The Compact-View Mapper applied to order records *)

\* an order with every field the mapper reads
RichOrder ==
    Dict([id |-> PyStr("123"),
          __statusDescr |-> PyStr("Available"),
          weight |-> Num(40000),
          pieces |-> Num(0),
          commodity |-> PyStr(""),
          customer_id |-> PyStr("ACME"),
          customer |-> Dict([name |-> PyStr("Acme Inc")]),
          movement |-> List(<<Dict([brokerage |-> Bool(TRUE)])>>),
          stops |-> List(<<
              Dict([stop_type |-> PyStr("PU"), city_name |-> PyStr("Dallas"), state |-> PyStr("TX"),
                    cases |-> Num(12), order_sequence |-> Num(1),
                    sched_arrive_early |-> PyStr("20240101080000-0600")]),
              Dict([stop_type |-> PyStr("SO"), city_name |-> PyStr("Austin"), state |-> PyStr("TX"),
                    movement_sequence |-> Num(2),
                    sched_arrive_late |-> PyStr("2024")])>>)])

\* orders without stops: absent, null, empty list; no order at all
NoStopsOrders ==
    {EmptyDict, Dict([stops |-> None]), Dict([stops |-> EmptyList]),
     Dict([id |-> PyStr("123"), stops |-> EmptyList]), None}

\* orders whose stops are present but not a list of mappings
MalformedStopsOrders ==
    {Dict([stops |-> PyStr("PU")]),
     Dict([stops |-> Num(5)]),
     Dict([stops |-> Dict([stop_type |-> PyStr("PU")])]),
     Dict([stops |-> List(<<None>>)]),
     Dict([stops |-> List(<<RawStop(PyStr("PU"), 1), PyStr("SO")>>)]),
     Dict([stops |-> List(<<RawStop(PyStr("PU"), 1), List(<<>>)>>)])}

\* other malformed data: a stop whose type code is no string, an order that is no mapping
OtherMalformedOrders ==
    {Dict([stops |-> List(<<RawStop(Num(3), 1)>>)]), PyStr("order"), List(<<RichOrder>>)}

InitCompact ==
    /\ \E format_ts \in BOOLEAN :
         \/ \E n \in 1..MaxStops : \E codes \in [1..n -> TypeCodes] :
               input = [order |-> Dict([stops |-> List(StopList(n, codes))]),
                        format_ts |-> format_ts]
         \/ \E o \in {RichOrder} \cup NoStopsOrders \cup MalformedStopsOrders
                       \cup OtherMalformedOrders :
               input = [order |-> o, format_ts |-> format_ts]
    /\ InitIdle

MapFindLoadPayload ==
    /\ fn = ""
    /\ fn' = "map_find_load_payload"
    /\ output' = map_find_load_payload(input.order, input.format_ts)
    /\ UNCHANGED <<input, orders, idx, payloads, pc, env, redis, calls, log>>

ExtractPickupAndDelivery ==
    /\ fn = ""
    /\ fn' = "extract_pickup_and_delivery"
    /\ output' = extract_pickup_and_delivery(input.order)
    /\ UNCHANGED <<input, orders, idx, payloads, pc, env, redis, calls, log>>

NextCompact == MapFindLoadPayload \/ ExtractPickupAndDelivery

SpecCompact == InitCompact /\ [][NextCompact]_vars

\* the order's 'stops' is present but is not a list, or is a list with an element
\* that is null or no mapping
StopsMalformed(o) ==
    /\ IsDict(o)
    /\ Has(o, "stops")
    /\ ~IsNone(Get(o, "stops"))
    /\ \/ ~IsList(Get(o, "stops"))
       \/ \E i \in 1..Len(Get(o, "stops").l) : ~IsDict(Get(o, "stops").l[i])

\* C12: map_find_load_payload returns a payload, and raises nothing, for every
\* order whose 'stops' is present but malformed.
C12_MapperNeverRaises ==
    (fn = "map_find_load_payload" /\ StopsMalformed(input.order)) => IsDict(output)

CompactKeys ==
    {"load_number", "status", "equipment_type", "weight", "weight_unit", "pieces", "cases",
     "pallets", "commodity", "distance", "distance_unit", "bol_number", "shipment_id",
     "pickup", "delivery", "stops", "customer", "ordered_date", "brokerage", "notes",
     "internal_next_steps"}

EndpointKeys ==
    {"location_name", "address", "city", "state", "zip", "phone", "scheduled_early",
     "scheduled_late", "actual_arrival", "status", "load_type"}

\* the order has no stops: absent, null or the empty list
HasNoStops(o) == ~IsDict(o) \/ ~Has(o, "stops") \/ Get(o, "stops") \in {None, EmptyList}

AllNull(d) == IsDict(d) /\ \A k \in DOMAIN d.d : d.d[k] = None

\* C13: every payload of map_find_load_payload has the same top-level keys and the
\* same keys in 'pickup', 'delivery' and 'customer'; with no stops, 'pickup' and
\* 'delivery' are present with every field null and 'stops' is the empty list.
C13_CompactDense ==
    (fn = "map_find_load_payload" /\ ~IsRaised(output)) =>
        /\ IsDict(output)
        /\ DOMAIN output.d = CompactKeys
        /\ IsDict(output.d["pickup"]) /\ DOMAIN output.d["pickup"].d = EndpointKeys
        /\ IsDict(output.d["delivery"]) /\ DOMAIN output.d["delivery"].d = EndpointKeys
        /\ IsDict(output.d["customer"]) /\ DOMAIN output.d["customer"].d = {"id", "name"}
        /\ HasNoStops(input.order) =>
              /\ AllNull(output.d["pickup"])
              /\ AllNull(output.d["delivery"])
              /\ output.d["stops"] = EmptyList

\* an order with an id and an empty stop list
C13_Witness ==
    /\ fn = "map_find_load_payload"
    /\ input.order = Dict([id |-> PyStr("123"), stops |-> EmptyList])
    /\ IsDict(output)
    /\ output.d["load_number"] = PyStr("123")
    /\ AllNull(output.d["pickup"])
    /\ output.d["stops"] = EmptyList

\* C14: for a non-empty list of stop records, pickup is the first PU/ORIGIN stop, or
\* stops[0] without one, and delivery is the last SO/DESTINATION stop, or the last
\* stop without one.
C14_PickupAndDelivery ==
    (fn = "extract_pickup_and_delivery" /\ HasStopRecords(input.order)
        /\ \A i \in 1..Len(RawStops(input.order)) :
              IsStr(Or(Get(RawStops(input.order)[i], "stop_type"), EmptyStr))) =>
        LET stops == RawStops(input.order)
            pus == PickupPositions(input.order)
            sos == DropoffPositions(input.order)
        IN  /\ output.t = "tuple"
            /\ \E i \in 1..Len(stops) :
                  /\ output.l[1] = stops[i]
                  /\ IF pus = {} THEN i = 1 ELSE i \in pus /\ \A j \in pus : i <= j
            /\ \E i \in 1..Len(stops) :
                  /\ output.l[2] = stops[i]
                  /\ IF sos = {} THEN i = Len(stops) ELSE i \in sos /\ \A j \in sos : j <= i

\* a one-stop list with an unrecognized code: both are that stop
C14_Witness ==
    /\ fn = "extract_pickup_and_delivery"
    /\ HasStopRecords(input.order)
    /\ RawCodes(input.order) = <<S("XX")>>
    /\ output = Tuple(<<RawStops(input.order)[1], RawStops(input.order)[1]>>)

-----------------------------------------------------------------------------
(* _proxy_load_event and the callers of the Compact-View Mapper: the objects  *)
(* they write to.  `orders` holds the order objects of the input, `payloads`  *)
(* the dict objects created since the call, `output` the references held in   *)
(* payload_to_send / payload; `input` keeps the arguments as they were passed. *)

\* a reference to the object at a position of `orders` or of `payloads`
Ref(heap, at) == [heap |-> heap, at |-> at]

\* a mutant of PayloadRef: the transformer hands back the order objects themselves
PayloadRef_order(k) == Ref("orders", k)

\* the k-th element of the returned list: the dict created by `payload = {...}`
PayloadRef(k) == Ref("payloads", k)

\* the object a reference points to
Deref(ref) == IF ref.heap = "orders" THEN orders[ref.at] ELSE payloads[ref.at]

\* d[k] = v
SetItem(d, k, v) ==
    IF ~IsDict(d) THEN d
    ELSE Dict([x \in DOMAIN d.d \cup {k} |-> IF x = k THEN v ELSE d.d[x]])

\* d.setdefault(k, v)
SetDefault(d, k, v) == IF IsDict(d) /\ Has(d, k) THEN d ELSE SetItem(d, k, v)

\* the objects of one heap after the object behind ref became val
After(objs, heap, ref, val) ==
    IF ref.heap = heap /\ ref.at \in DOMAIN objs THEN [objs EXCEPT ![ref.at] = val] ELSE objs

\* _proxy_load_event: "Normalize mcleod_data to a list of orders"
NormalizeOrders(data) ==
    IF IsList(data) THEN data.l
    ELSE IF Truthy(data) THEN <<data>> ELSE <<>>

\* server.find_load_before_negotiation: "Extract order from data"; 0 for the new {}
ServerOrder(data) ==
    IF (IsList(data) /\ Truthy(data)) \/ IsDict(data) THEN 1 ELSE 0

ProxyOrders ==
    {ExampleOrder,
     Dict([id |-> PyStr("9"), org_id |-> PyStr("theirs"),
           movement |-> List(<<Dict([override_max_pay_n |-> Num(900)])>>)]),
     Dict([id |-> PyStr("6"), stops |-> List(<<LoadStop(PyStr("PU"), Absent, 1), None>>)]),
     None}

ProxyData ==
    {List(os) : os \in UNION {[1..n -> ProxyOrders] : n \in 0..MaxOrders}}
    \cup {ExampleOrder, Dict([__type |-> PyStr("orders"), id |-> PyStr("9")]),
          None, PyStr("order")}

OrgIds == {None, PyStr(""), PyStr("org-1")}

InitProxy ==
    /\ NoSweep
    /\ \E data \in ProxyData : \E org_id \in OrgIds :
          /\ input = [data |-> data, org_id |-> org_id]
          /\ orders = NormalizeOrders(data)
    /\ fn = "_proxy_load_event"
    /\ output = None
    /\ idx = 0
    /\ payloads = <<>>
    /\ pc = "loop"

\* len(transformed_payload) == 0: "No orders to proxy"
NothingToProxy ==
    /\ pc = "returned"
    /\ payloads = <<>>
    /\ pc' = "sent"
    /\ UNCHANGED <<fn, input, output, orders, idx, payloads, env, redis, calls, log>>

\* payload_to_send = transformed_payload[0] or transformed_payload
PayloadToSend ==
    /\ pc = "returned"
    /\ payloads # <<>>
    /\ output' = List([k \in 1..Len(payloads) |-> PayloadRef(k)])
    /\ idx' = 0
    /\ pc' = "attach"
    /\ UNCHANGED <<fn, input, orders, payloads, env, redis, calls, log>>

\* p.setdefault("org_id", org_id), for one element of payload_to_send
AttachOrgId ==
    /\ pc = "attach"
    /\ Truthy(input.org_id)
    /\ idx < Len(output.l)
    /\ LET ref == output.l[idx + 1]
           val == SetDefault(Deref(ref), "org_id", input.org_id)
       IN  /\ orders' = After(orders, "orders", ref, val)
           /\ payloads' = After(payloads, "payloads", ref, val)
    /\ idx' = idx + 1
    /\ UNCHANGED <<fn, input, output, pc, env, redis, calls, log>>

\* requests.post(url, headers=headers, json=payload_to_send, ...)
Post ==
    /\ pc = "attach"
    /\ ~Truthy(input.org_id) \/ idx = Len(output.l)
    /\ pc' = "sent"
    /\ UNCHANGED <<fn, input, output, orders, idx, payloads, env, redis, calls, log>>

\* the caller's payload = map_find_load_payload(order, format_ts=False)
MapCompact ==
    /\ pc = "sent"
    /\ fn' = "map_find_load_payload"
    /\ LET at == ServerOrder(input.data)
           payload == map_find_load_payload(IF at = 0 THEN EmptyDict ELSE orders[at], FALSE)
       IN  IF IsRaised(payload)
           THEN pc' = "failed" /\ UNCHANGED <<output, payloads>>
           ELSE /\ payloads' = Append(payloads, payload)
                /\ output' = List(<<Ref("payloads", Len(payloads) + 1)>>)
                /\ pc' = "mapped"
    /\ UNCHANGED <<input, orders, idx, env, redis, calls, log>>

\* payload["rate"] = rate if rate is not None else "TBD"
SetRate ==
    /\ pc = "mapped"
    /\ LET ref == output.l[1]
           at == ServerOrder(input.data)
           rate == safe_get(IF at = 0 THEN EmptyDict ELSE orders[at],
                            <<Key("movement"), Index(0), Key("override_max_pay_n")>>, None)
           val == SetItem(Deref(ref), "rate", IF IsNone(rate) THEN PyStr("TBD") ELSE rate)
       IN  /\ orders' = After(orders, "orders", ref, val)
           /\ payloads' = After(payloads, "payloads", ref, val)
    /\ pc' = "finished"
    /\ UNCHANGED <<fn, input, output, idx, env, redis, calls, log>>

NextProxy ==
    \/ AppendPayload \/ SkipOrder \/ Return
    \/ NothingToProxy \/ PayloadToSend \/ AttachOrgId \/ Post
    \/ MapCompact \/ SetRate

SpecProxy == InitProxy /\ [][NextProxy]_vars

\* C16: the order records handed to _transform_orders_to_load_event and to
\* map_find_load_payload are unchanged after the call, also after org_id has been
\* attached to the payloads.
C16_InputUnchanged == orders = NormalizeOrders(input.data)

\* two payloads got the org_id, the compact payload its rate, and the orders are
\* as they were passed
C16_Witness ==
    /\ pc = "finished"
    /\ Len(payloads) = 3
    /\ Get(payloads[1], "org_id") = PyStr("org-1")
    /\ Get(payloads[2], "org_id") = PyStr("org-1")
    /\ Get(payloads[3], "rate") = Num(900)
    /\ orders = NormalizeOrders(input.data)
    /\ \E i \in 1..Len(orders) : IsDict(orders[i]) /\ ~Has(orders[i], "org_id")

-----------------------------------------------------------------------------
(* Properties of the Stop Classifier: synthesized stops and stop_order *)

StopOrderOf(stop) == stop.d["stop_order"].n
TypeOf(stop) == stop.d["type"]

\* C17: the output holds the n raw stops, one more in front if none of them was
\* classified origin (location of raw stop 0, stop_order 1) and one more at the end
\* if none was classified destination (location of the last raw stop, stop_order
\* one above the largest of the other output stops).
C17_Synthesis ==
    (fn = "_extract_stops" /\ HasStopRecords(input)) =>
        LET stops == RawStops(input)
            n == Len(stops)
            out == output.l
        IN  /\ IsList(output)
            /\ \E a \in {0, 1} : \E b \in {0, 1} :
                  /\ Len(out) = n + a + b
                  /\ Aligned(input, output, a)
                  /\ a = 1 <=> ~\E i \in 1..n : TypeOf(out[a + i]) = origin
                  /\ b = 1 <=> ~\E i \in 1..n : TypeOf(out[a + i]) = destination
                  /\ a = 1 =>
                        /\ TypeOf(out[1]) = origin
                        /\ out[1].d["location"] = LocationOf(stops[1])
                        /\ StopOrderOf(out[1]) = 1
                  /\ b = 1 =>
                        /\ TypeOf(out[Len(out)]) = destination
                        /\ out[Len(out)].d["location"] = LocationOf(stops[n])
                        /\ \E m \in 1..(Len(out) - 1) :
                              /\ StopOrderOf(out[Len(out)]) = StopOrderOf(out[m]) + 1
                              /\ \A j \in 1..(Len(out) - 1) : StopOrderOf(out[j]) <= StopOrderOf(out[m])

\* one PICK stop with movement_sequence 5: origin and destination are both synthesized
C17_Witness ==
    /\ fn = "_extract_stops"
    /\ HasStopRecords(input)
    /\ RawCodes(input) = <<S("PICK")>>
    /\ Get(RawStops(input)[1], "movement_sequence") = Num(5)
    /\ RolesOf(output) = <<origin, pick, destination>>
    /\ StopOrderOf(output.l[1]) = 1
    /\ StopOrderOf(output.l[3]) = 6

\* the stop_order the stop at 0-based position i is to get
ExpectedStopOrder(st, i) ==
    IF CanInt(Get(st, "movement_sequence")) THEN IntOf(Get(st, "movement_sequence"))
    ELSE IF CanInt(Get(st, "order_sequence")) THEN IntOf(Get(st, "order_sequence"))
    ELSE i + 1

\* C18: the stop_order of the stop at 0-based position i is the integer value of
\* movement_sequence when present and integer-parseable (0 included), else that of
\* order_sequence when present and integer-parseable, else i + 1.
C18_StopOrder ==
    (fn = "_extract_stops" /\ HasStopRecords(input)) =>
        /\ IsList(output)
        /\ \E a \in {0, 1} :
              /\ Aligned(input, output, a)
              /\ \A i \in 1..Len(RawStops(input)) :
                    StopOrderOf(output.l[a + i]) = ExpectedStopOrder(RawStops(input)[i], i - 1)

-----------------------------------------------------------------------------
(* Properties of the status default bucket *)

\* a status text trimmed and upper-cased, "" for a missing one
TrimUpper(v) == IF IsStr(v) THEN Upper(Strip(v.s)) ELSE <<>>

InDefaultBucket(o) ==
    /\ IsOrderRecord(o)
    /\ BrokerageMapped(o) = None
    /\ DescrMapped(o) = None
    /\ ~CodeIsD(o)

DefaultBucketStatus(o) ==
    IF \/ TrimUpper(Get(o, "status")) \in {S("A"), S("ACTIVE"), S("REVIEW")}
       \/ TrimUpper(Get(o, "__statusDescr")) \in {S("A"), S("ACTIVE"), S("REVIEW"), S("AVAILABLE")}
    THEN PyStr("available")
    ELSE PyStr("covered")

\* C19: when neither the brokerage status nor __statusDescr normalizes and the code
\* is not 'D', the status is 'available' if the code is one of A, ACTIVE, REVIEW or
\* the description one of A, ACTIVE, REVIEW, AVAILABLE, and 'covered' otherwise.
C19_DefaultBucket ==
    (fn = "_derive_status" /\ InDefaultBucket(input)) => output = DefaultBucketStatus(input)

-----------------------------------------------------------------------------
(* Properties of posted_carrier_rate *)

RateKeys == <<"override_max_pay", "target_pay", "target_pay_n">>

\* a returned single-order batch whose order has a first movement that is a mapping
OneOrderWithMovement ==
    /\ pc = "returned"
    /\ Len(orders) = 1
    /\ IsDict(orders[1])
    /\ IsList(Get(orders[1], "movement"))
    /\ Get(orders[1], "movement").l # <<>>
    /\ IsDict(Get(orders[1], "movement").l[1])

\* the value of the pay field at position i of RateKeys on the first movement
PayField(i) == Get(Get(orders[1], "movement").l[1], RateKeys[i])

\* the payload's posted_carrier_rate is the float of pay field i, or is omitted
\* when there is no such field
RateIsFrom(fields) ==
    /\ Len(payloads) = 1
    /\ IF fields = {} THEN ~Has(payloads[1], "posted_carrier_rate")
       ELSE LET i == CHOOSE i \in fields : \A j \in fields : i <= j
            IN  IF CanFloat(PayField(i))
                THEN Get(payloads[1], "posted_carrier_rate") = FloatOf(PayField(i))
                ELSE ~Has(payloads[1], "posted_carrier_rate")

\* C20 as stated: the first pay field that is not null decides; when float()
\* rejects it the rate is omitted and no later field is used.
C20_FirstPresentWins ==
    OneOrderWithMovement => RateIsFrom({i \in 1..3 : ~IsNone(PayField(i))})

\* C20 as amended: the first pay field that is not null and that float() accepts
\* decides; a field float() rejects is passed over for the next one, the rate is
\* omitted only when no field is left, and the order is emitted in every case.
C20_FirstCastableWins ==
    OneOrderWithMovement =>
        RateIsFrom({i \in 1..3 : ~IsNone(PayField(i)) /\ CanFloat(PayField(i))})

\* override_max_pay is rejected by float() and target_pay is used
C20_Witness ==
    /\ OneOrderWithMovement
    /\ PayField(1) = PyStr("abc")
    /\ PayField(2) = Num(90)
    /\ Len(payloads) = 1
    /\ Get(payloads[1], "posted_carrier_rate") = Float(FALSE, 90, <<>>)

-----------------------------------------------------------------------------
(* The two timestamp normalizers *)

\* C30: find_load_utils.format_timestamp and the convert helper inside
\* find_load._format_window return the same result for every input (None,
\* non-strings, strings of every shape): what one of them returned is what the
\* other one returns for the same input.
C30_NormalizersAgree ==
    /\ fn = "format_timestamp" => output = convert(input)
    /\ fn = "convert" => output = format_timestamp(input)

C30_Witness ==
    /\ fn = "format_timestamp"
    /\ input = PyStr("19991231235959-06-00")
    /\ output = PyStr("1999-12-31T23:59:59")

-----------------------------------------------------------------------------
(* The extractors of miles and contacts, applied to one order *)

BillValues ==
    {Absent, None, PyStr("12.5"), PyStr(" 40 "), PyStr("abc"), PyStr(""), Num(0), Num(7),
     Float(FALSE, 12, <<"9">>), Bool(TRUE), EmptyList}

MoveValues == {Absent, None, PyStr("300"), PyStr("1.5"), PyStr("x"), Num(0), Float(FALSE, 8, <<"7">>)}

MovementOf(move_distance) ==
    Record({"move_distance", "max_buy"},
           LAMBDA k : IF k = "move_distance" THEN move_distance ELSE PyStr("100.50"))

\* the shapes of 'movement': missing, null, not a list, empty, a null or
\* non-mapping first element, one movement, two movements
MovementValues ==
    {Absent, None, PyStr("abc"), EmptyDict, EmptyList, List(<<None>>), List(<<PyStr("abc")>>),
     List(<<Num(5)>>)}
    \cup {List(<<MovementOf(m)>>) : m \in MoveValues}
    \cup {List(<<MovementOf(PyStr("x")), MovementOf(PyStr("300"))>>),
          List(<<None, MovementOf(PyStr("300"))>>)}

MilesOrder(bill_distance, movement) ==
    Record({"id", "bill_distance", "movement"},
           LAMBDA k : CASE k = "id" -> PyStr("9")
                        [] k = "bill_distance" -> bill_distance
                        [] k = "movement" -> movement)

NameValues == {Absent, PyStr(""), PyStr("Ann")}
EmailValues == {Absent, PyStr("a@x")}
PhoneValues ==
    {Absent, PyStr(""), PyStr("555-01 02"), PyStr("(555) 010.2"), PyStr("+1 555"), Num(5550102)}

UserValues ==
    {Absent, None, EmptyDict}
    \cup {Record({"name", "email_address", "phone"},
                 LAMBDA k : CASE k = "name" -> n
                              [] k = "email_address" -> e
                              [] k = "phone" -> ph) :
            n \in NameValues, e \in EmailValues, ph \in PhoneValues}

ContactOrder(operationsUser, enteredUser) ==
    Record({"id", "operationsUser", "enteredUser"},
           LAMBDA k : CASE k = "id" -> PyStr("9")
                        [] k = "operationsUser" -> operationsUser
                        [] k = "enteredUser" -> enteredUser)

InitExtract ==
    /\ \/ \E b \in BillValues : \E mv \in MovementValues : input = MilesOrder(b, mv)
       \/ \E u \in UserValues : \E e \in UserValues : input = ContactOrder(u, e)
    /\ InitIdle

ExtractMiles ==
    /\ fn = ""
    /\ fn' = "_extract_miles"
    /\ output' = _extract_miles(input)
    /\ UNCHANGED <<input, orders, idx, payloads, pc, env, redis, calls, log>>

ExtractContacts ==
    /\ fn = ""
    /\ fn' = "_extract_contacts"
    /\ output' = _extract_contacts(input)
    /\ UNCHANGED <<input, orders, idx, payloads, pc, env, redis, calls, log>>

\* the body of the transformer's loop for the order
LoadEvent ==
    /\ fn = ""
    /\ fn' = "load_event"
    /\ output' = LoadEventOf(input)
    /\ UNCHANGED <<input, orders, idx, payloads, pc, env, redis, calls, log>>

NextExtract == ExtractMiles \/ ExtractContacts \/ LoadEvent

SpecExtract == InitExtract /\ [][NextExtract]_vars

\* bill_distance is present and a number can be made of it
BillCastable(o) == ~IsNone(Get(o, "bill_distance")) /\ CanFloat(Get(o, "bill_distance"))

\* the first movement's move_distance, None when there is no first movement
MoveDistance(o) ==
    LET mv == Get(o, "movement")
    IN  IF IsList(mv) /\ mv.l # <<>> /\ IsDict(mv.l[1]) THEN Get(mv.l[1], "move_distance")
        ELSE None

\* the miles the claim gives for the order
MilesOf(o) ==
    IF BillCastable(o) THEN Num(IntOf(FloatOf(Get(o, "bill_distance"))))
    ELSE IF ~IsNone(MoveDistance(o)) /\ CanInt(MoveDistance(o)) THEN Num(IntOf(MoveDistance(o)))
    ELSE None

ClaimedContact(o, key) ==
    LET usr == Get(o, key)
    IN  IF IsDict(usr) /\ (Truthy(Get(usr, "name")) \/ Truthy(Get(usr, "email_address"))
                           \/ Truthy(Get(usr, "phone")))
        THEN <<[name |-> Or(Get(usr, "name"), EmptyStr),
                email |-> Or(Get(usr, "email_address"), EmptyStr)]>>
        ELSE <<>>

DigitsOnly(v) == IsStr(v) /\ \A i \in 1..Len(v.s) : IsDigit(v.s[i])

\* C22: _extract_contacts returns at most two contacts, the one of operationsUser
\* before the one of enteredUser, a sub-record being included only if one of its
\* name, email_address, phone is non-empty; the phone of every returned contact
\* consists of digits only.
C22_Contacts ==
    (fn = "_extract_contacts" /\ ~IsRaised(output)) =>
        LET claimed == ClaimedContact(input, "operationsUser") \o ClaimedContact(input, "enteredUser")
        IN  /\ Len(output.l) <= 2
            /\ Len(output.l) = Len(claimed)
            /\ \A i \in 1..Len(output.l) :
                  /\ Get(output.l[i], "name") = claimed[i].name
                  /\ Get(output.l[i], "email") = claimed[i].email
                  /\ DigitsOnly(Get(output.l[i], "phone"))

-----------------------------------------------------------------------------
(* Zero as a value of the numeric fields *)

NumericKeys == {"miles", "max_buy", "posted_carrier_rate", "weight", "number_of_pieces"}

\* the number 0, as an int or as a float
IsZero(v) == v = Num(0) \/ v = Float(FALSE, 0, <<>>)

\* the numeric keys whose extracted value for the order is the number 0
ZeroKeys(order) ==
    LET x == [miles |-> _extract_miles(order),
              max_buy |-> _extract_max_buy(order),
              posted_carrier_rate |-> _extract_posted_carrier_rate(order),
              weight |-> _extract_weight(order)]
    IN  {k \in NumericKeys : IsZero(OptionalValue(order, x, k))}

\* C23: when the extracted miles, max_buy, posted_carrier_rate, weight or
\* number_of_pieces of an order is the number 0, the payload of the order has
\* the key, with value 0.
C23_ZeroKept ==
    (pc = "returned" /\ Len(orders) = 1 /\ Len(payloads) = 1) =>
        \A k \in ZeroKeys(orders[1]) :
            Has(payloads[1], k) /\ IsZero(Get(payloads[1], k))

\* an order whose first movement has max_buy 0 and move_distance 0
C23_Witness ==
    /\ pc = "returned"
    /\ Len(orders) = 1
    /\ Len(payloads) = 1
    /\ ZeroKeys(orders[1]) = {"miles", "max_buy"}
    /\ Get(payloads[1], "miles") = Num(0)
    /\ Get(payloads[1], "max_buy") = Float(FALSE, 0, <<>>)

-----------------------------------------------------------------------------
(* The sweeps: what they share *)

\* greatest number of process_order calls of the pre-pickup sweeps
MaxCalls == 2

\* d.get(k, default), for a dict d
GetOr(d, k, default) == IF k \in DOMAIN d.d THEN d.d[k] ELSE default

unknown == PyStr("unknown")

\* the keys of TIMEZONE_MAPPING
TIMEZONE_MAPPING ==
    {PyStr("EDT"), PyStr("EST"), PyStr("CDT"), PyStr("CST"), PyStr("MDT"), PyStr("MST"),
     PyStr("PDT"), PyStr("PST"), PyStr("HDT"), PyStr("HST"), PyStr("AKDT"), PyStr("AKST")}

\* sched_arrive_early.split("+")[0] if "+" in sched_arrive_early
\* else sched_arrive_early.split("-")[0]
dt_part(sched_arrive_early) ==
    IF Contains(sched_arrive_early, <<"+">>) THEN SplitFirst(sched_arrive_early, "+")
    ELSE SplitFirst(sched_arrive_early, "-")

\* datetime.strptime(s, "%Y%m%d%H%M%S") returns, for a text of 14 characters
\* (shorter digit strings that strptime also accepts are not covered)
IsTimeText(s) ==
    /\ Len(s) = 14
    /\ \A i \in 1..14 : IsDigit(s[i])
    /\ DigitsToNat(SubSeq(s, 1, 4)) >= 1
    /\ DigitsToNat(SubSeq(s, 5, 6)) \in 1..12
    /\ DigitsToNat(SubSeq(s, 7, 8)) \in 1..31
    /\ DigitsToNat(SubSeq(s, 9, 10)) <= 23
    /\ DigitsToNat(SubSeq(s, 11, 12)) <= 59
    /\ DigitsToNat(SubSeq(s, 13, 14)) <= 61

\* the scheduled time of a stop cannot be parsed: `"+" in`, split or strptime raises
TimeRaises(sched_arrive_early) ==
    ~IsStr(sched_arrive_early) \/ ~IsTimeText(dt_part(sched_arrive_early.s))

\* a mutant of success: every response counts as a success
success_any_response(status_code) == ~IsRaised(status_code)

\* the status codes send_webhook takes for a success
success(status_code) == status_code \in {Num(200), Num(201), Num(202)}

\* what requests.post gives send_webhook: a status code, or Raised
WebhookOutcomes == {Num(200), Num(201), Num(202), Num(500), Raised}

\* one entry of the log
Event(e, call, id, key, val, order) ==
    [e |-> e, call |-> call, id |-> id, key |-> key, val |-> val, order |-> order]

-----------------------------------------------------------------------------
(* The pre-pickup sweep: process_order and the Redis client *)

\* the returned dict, without webhook_status
Result(order_id, ok, reason) ==
    Dict([order_id |-> order_id, success |-> Bool(ok), reason |-> reason])

\* process_order goes on to the Redis check
Passed == [t |-> "passed"]

\* the result of the `except` of process_order; the text of the exception is left out
Fault(order_id) == Result(order_id, FALSE, PyStr("error: "))

\* pre_pickup.process_order, lines 102-147: the result a filter or a fault
\* returns, Raised when line 102 raises, Passed when the order gets through
PrePickupFilter(order) ==
    IF ~IsDict(order) THEN Raised
    ELSE
    LET order_id == GetOr(order, "id", unknown)
        stops == GetOr(order, "stops", EmptyList)
        movements == GetOr(order, "movement", EmptyList)
        first_stop == IF IsList(stops) /\ stops.l # <<>> THEN stops.l[1] ELSE Raised
        movement == IF IsList(movements) /\ movements.l # <<>> THEN movements.l[1] ELSE movements
    IN  IF ~Truthy(stops) THEN Result(order_id, FALSE, PyStr("no_stops"))
        ELSE IF ~Truthy(movements) THEN Result(order_id, FALSE, PyStr("no_movement"))
        ELSE IF ~IsDict(first_stop) THEN Fault(order_id)
        ELSE IF Truthy(Get(first_stop, "actual_arrival"))
             THEN Result(order_id, FALSE, PyStr("already_picked_up"))
        ELSE IF ~Truthy(Get(first_stop, "sched_arrive_early"))
             THEN Result(order_id, FALSE, PyStr("no_pickup_time"))
        ELSE IF Truthy(Get(first_stop, "__timezone"))
                /\ Get(first_stop, "__timezone") \notin TIMEZONE_MAPPING THEN Fault(order_id)
        ELSE IF TimeRaises(Get(first_stop, "sched_arrive_early")) THEN Fault(order_id)
        ELSE IF ~IsDict(movement) THEN Fault(order_id)
        ELSE IF Get(movement, "brokerage_status") # PyStr("COVERED")
             THEN Result(order_id, FALSE,
                         Str(S("status_") \o StrOf(Get(movement, "brokerage_status"))))
        ELSE IF ~Truthy(Get(movement, "override_drvr_cell"))
                /\ ~Truthy(Get(movement, "carrier_phone"))
             THEN Result(order_id, FALSE, PyStr("no_phone"))
        ELSE Passed

\* lines 154-155 raise: re.sub on a phone that is not a string
CleanRaises(order) ==
    LET movements == Get(order, "movement")
        movement == IF IsList(movements) THEN movements.l[1] ELSE movements
        driver_phone == Get(movement, "override_drvr_cell")
        dispatch_phone == Get(movement, "carrier_phone")
    IN  \/ Truthy(driver_phone) /\ ~IsStr(driver_phone)
        \/ Truthy(dispatch_phone) /\ ~IsStr(dispatch_phone)

\* f"prepickup:{order_id}"
KeyOf(order_id) == S("prepickup:") \o StrOf(order_id)

\* what a use of Redis can come to: REDIS_URL is not set, the connection
\* fails, the command raises, or the command is carried out
RedisOutcomes ==
    IF ~env.REDIS_URL THEN {PyStr("unset")}
    ELSE IF env.faults THEN {PyStr("ok"), PyStr("connect_failed"), PyStr("raised")}
    ELSE {PyStr("ok")}

\* a mutant of has_been_called: an order counts as called when Redis cannot be asked
has_been_called_fail_closed(outcome, order_id) ==
    IF outcome # PyStr("ok") THEN TRUE ELSE KeyOf(order_id) \in redis

\* a mutant of has_been_called: no order counts as called
has_been_called_never(outcome, order_id) == FALSE

\* redis_client.has_been_called
has_been_called(outcome, order_id) ==
    IF outcome # PyStr("ok") THEN FALSE ELSE KeyOf(order_id) \in redis

\* redis_client.mark_as_called: the keys of Redis afterwards
mark_as_called(outcome, order_id) ==
    IF outcome # PyStr("ok") THEN redis ELSE redis \cup {KeyOf(order_id)}

\* the sweeps that may run; DOMAIN calls holds the ones that do
Sweeps == {"sweep_a", "sweep_b"}

NumCalls == Cardinality({i \in DOMAIN log : log[i].e = "begin"})

Idle == [at |-> "idle", call |-> 0, order |-> None]

OrderId(p) == GetOr(calls[p].order, "id", unknown)

\* the entries of a call that returns result
ReturnOf(call, order_id, result) ==
    Event("return", call, order_id, KeyOf(order_id),
          IF IsRaised(result) THEN Raised ELSE Get(result, "reason"), None)

\* process_order(order, webhook_url) is called and runs up to the Redis check
StartCall(p) ==
    /\ p \in DOMAIN calls
    /\ calls[p].at = "idle"
    /\ NumCalls < MaxCalls
    /\ \E order \in env.orders :
          LET call == NumCalls + 1
              order_id == IF IsDict(order) THEN GetOr(order, "id", unknown) ELSE None
              r == PrePickupFilter(order)
              begin == Event("begin", call, order_id, KeyOf(order_id), PyStr(p), order)
          IN  IF r = Passed
              THEN /\ calls' = [calls EXCEPT ![p] = [at |-> "check", call |-> call, order |-> order]]
                   /\ log' = log \o <<begin>>
              ELSE /\ calls' = calls
                   /\ log' = log \o <<begin, ReturnOf(call, order_id, r)>>
    /\ UNCHANGED <<fn, input, output, orders, idx, payloads, pc, env, redis>>

\* lines 150-155: has_been_called(order_id), then the phones are cleaned
HasBeenCalled(p) ==
    /\ p \in DOMAIN calls
    /\ calls[p].at = "check"
    /\ \E outcome \in RedisOutcomes :
          LET c == calls[p]
              check == Event("check", c.call, OrderId(p), KeyOf(OrderId(p)), outcome, None)
          IN  IF has_been_called(outcome, OrderId(p))
              THEN /\ calls' = [calls EXCEPT ![p] = Idle]
                   /\ log' = log \o <<check, ReturnOf(c.call, OrderId(p),
                                         Result(OrderId(p), FALSE, PyStr("already_called")))>>
              ELSE IF CleanRaises(c.order)
              THEN /\ calls' = [calls EXCEPT ![p] = Idle]
                   /\ log' = log \o <<check, ReturnOf(c.call, OrderId(p), Fault(OrderId(p)))>>
              ELSE /\ calls' = [calls EXCEPT ![p].at = "send"]
                   /\ log' = log \o <<check>>
    /\ UNCHANGED <<fn, input, output, orders, idx, payloads, pc, env, redis>>

\* lines 158-189: the webhook is sent; a failed one ends the call
SendWebhook(p) ==
    /\ p \in DOMAIN calls
    /\ calls[p].at = "send"
    /\ \E status_code \in env.statuses :
          LET c == calls[p]
              webhook == Event("webhook", c.call, OrderId(p), KeyOf(OrderId(p)), status_code, None)
          IN  IF success(status_code)
              THEN /\ calls' = [calls EXCEPT ![p].at = "mark"]
                   /\ log' = log \o <<webhook>>
              ELSE /\ calls' = [calls EXCEPT ![p] = Idle]
                   /\ log' = log \o <<webhook, ReturnOf(c.call, OrderId(p),
                                          Result(OrderId(p), FALSE, PyStr("webhook_failed")))>>
    /\ UNCHANGED <<fn, input, output, orders, idx, payloads, pc, env, redis>>

\* lines 181-189: mark_as_called(order_id, ...) and the return
MarkAsCalled(p) ==
    /\ p \in DOMAIN calls
    /\ calls[p].at = "mark"
    /\ \E outcome \in RedisOutcomes :
          LET c == calls[p]
              mark == Event("mark", c.call, OrderId(p), KeyOf(OrderId(p)), outcome, None)
          IN  /\ redis' = mark_as_called(outcome, OrderId(p))
              /\ calls' = [calls EXCEPT ![p] = Idle]
              /\ log' = log \o <<mark, ReturnOf(c.call, OrderId(p),
                                     Result(OrderId(p), TRUE, PyStr("webhook_sent")))>>
    /\ UNCHANGED <<fn, input, output, orders, idx, payloads, pc, env>>

\* the 604800 seconds of a key have passed: Redis drops it
Expire ==
    /\ \E key \in redis :
          /\ redis' = redis \ {key}
          /\ log' = log \o <<Event("expire", 0, None, key, None, None)>>
    /\ UNCHANGED <<fn, input, output, orders, idx, payloads, pc, env, calls>>

-----------------------------------------------------------------------------
(* The pre-pickup sweeps, one after the other and two at a time *)

PickupStop(actual_arrival, sched_arrive_early, timezone) ==
    Record({"actual_arrival", "sched_arrive_early", "__timezone", "city_name"},
           LAMBDA k : CASE k = "actual_arrival" -> actual_arrival
                        [] k = "sched_arrive_early" -> sched_arrive_early
                        [] k = "__timezone" -> timezone
                        [] k = "city_name" -> PyStr("Atlanta"))

Carrier(id, brokerage_status, override_drvr_cell, carrier_phone) ==
    Record({"id", "brokerage_status", "override_drvr_cell", "carrier_phone"},
           LAMBDA k : CASE k = "id" -> id
                        [] k = "brokerage_status" -> brokerage_status
                        [] k = "override_drvr_cell" -> override_drvr_cell
                        [] k = "carrier_phone" -> carrier_phone)

SweepOrder(id, stops, movement) ==
    Record({"id", "curr_movement_id", "stops", "movement"},
           LAMBDA k : CASE k = "id" -> id
                        [] k = "curr_movement_id" -> PyStr("M1")
                        [] k = "stops" -> stops
                        [] k = "movement" -> movement)

PickupAt == PyStr("20240101080000-0600")
DueStop == PickupStop(Absent, PickupAt, PyStr("CST"))
Covered == Carrier(PyStr("M1"), PyStr("COVERED"), PyStr("(555) 010-2"), Absent)

\* an order that passes every filter of the pre-pickup sweep
DuePickup(id) == SweepOrder(id, List(<<DueStop>>), List(<<Covered>>))

\* orders that pass the filters in other shapes: 'movement' a single mapping;
\* no timezone, a "+" offset and the dispatcher's phone only
OtherDuePickups ==
    {SweepOrder(PyStr("1001"), List(<<DueStop>>), Covered),
     SweepOrder(PyStr("1001"),
                List(<<PickupStop(Absent, PyStr("20240101080000+0100"), Absent)>>),
                List(<<Carrier(PyStr("M1"), PyStr("COVERED"), Absent, PyStr("555.010.3"))>>))}

\* the orders the Order Source hands to the pre-pickup sweeps: the orders 1001
\* and 1002 due for pickup, and order 1001 as it fails a filter or faults
PrePickupOrders ==
    {DuePickup(PyStr("1001")), DuePickup(PyStr("1002")),
     SweepOrder(PyStr("1001"), EmptyList, List(<<Covered>>)),
     None}
    \cup {SweepOrder(PyStr("1001"), List(<<st>>), List(<<Covered>>)) :
            st \in {PickupStop(PyStr("20240101075500-0600"), PickupAt, PyStr("CST")),
                    PickupStop(Absent, PyStr("tomorrow"), PyStr("CST"))}}
    \cup {SweepOrder(PyStr("1001"), List(<<DueStop>>), List(<<mv>>)) :
            mv \in {Carrier(PyStr("M1"), PyStr("BOOKED"), PyStr("5550102"), Absent),
                    Carrier(PyStr("M1"), PyStr("COVERED"), Absent, PyStr("")),
                    Carrier(PyStr("M1"), PyStr("COVERED"), Num(5550102), Absent)}}

\* an order without id, and order 1001 as it fails the other filters or faults
\* in other ways
OtherPrePickupOrders ==
    {DuePickup(Absent),
     SweepOrder(PyStr("1001"), Absent, List(<<Covered>>)),
     SweepOrder(PyStr("1001"), List(<<DueStop>>), Absent),
     SweepOrder(PyStr("1001"), List(<<DueStop>>), None),
     SweepOrder(PyStr("1001"), List(<<None>>), List(<<Covered>>)),
     SweepOrder(PyStr("1001"), List(<<DueStop>>), List(<<None>>)),
     SweepOrder(PyStr("1001"), List(<<PickupStop(Absent, Absent, PyStr("CST"))>>), List(<<Covered>>)),
     SweepOrder(PyStr("1001"), List(<<PickupStop(Absent, Num(20240101), PyStr("CST"))>>),
                List(<<Covered>>)),
     SweepOrder(PyStr("1001"), List(<<PickupStop(Absent, PickupAt, PyStr("XYZ"))>>),
                List(<<Covered>>)),
     SweepOrder(PyStr("1001"), List(<<DueStop>>),
                List(<<Carrier(PyStr("M1"), Absent, PyStr("5550102"), Absent)>>))}

\* the surroundings of the sweeps that run one at a time: REDIS_URL not set;
\* Redis reachable; Redis with faults (fewer orders and status codes)
PrePickupEnvs ==
    {[REDIS_URL |-> FALSE, faults |-> FALSE,
      orders |-> {DuePickup(PyStr("1001"))} \cup OtherDuePickups \cup OtherPrePickupOrders,
      statuses |-> {Num(200), Num(500)}],
     [REDIS_URL |-> TRUE, faults |-> FALSE, orders |-> PrePickupOrders,
      statuses |-> WebhookOutcomes],
     [REDIS_URL |-> TRUE, faults |-> TRUE,
      orders |-> {DuePickup(PyStr("1001")), DuePickup(PyStr("1002")),
                  SweepOrder(PyStr("1001"), EmptyList, List(<<Covered>>))},
      statuses |-> {Num(200), Num(500)}]}

InitPrePickup ==
    /\ env \in PrePickupEnvs
    /\ redis = {}
    /\ calls = [p \in {"sweep_a"} |-> Idle]
    /\ log = <<>>
    /\ fn = "process_order"
    /\ input = None
    /\ output = None
    /\ orders = <<>>
    /\ idx = 0
    /\ payloads = <<>>
    /\ pc = "idle"

NextPrePickup ==
    \/ \E p \in Sweeps : StartCall(p)
    \/ \E p \in Sweeps : HasBeenCalled(p)
    \/ \E p \in Sweeps : SendWebhook(p)
    \/ \E p \in Sweeps : MarkAsCalled(p)
    \/ Expire

SpecPrePickup == InitPrePickup /\ [][NextPrePickup]_vars

\* two sweeps at a time on the orders due for pickup, Redis reachable
InitOverlap ==
    /\ env = [REDIS_URL |-> TRUE, faults |-> FALSE,
              orders |-> {DuePickup(PyStr("1001")), DuePickup(PyStr("1002"))},
              statuses |-> {Num(200), Num(500)}]
    /\ redis = {}
    /\ calls = [p \in Sweeps |-> Idle]
    /\ log = <<>>
    /\ fn = "process_order"
    /\ input = None
    /\ output = None
    /\ orders = <<>>
    /\ idx = 0
    /\ payloads = <<>>
    /\ pc = "idle"

NextOverlap ==
    \/ \E p \in Sweeps : StartCall(p)
    \/ \E p \in Sweeps : HasBeenCalled(p)
    \/ \E p \in Sweeps : SendWebhook(p)
    \/ \E p \in Sweeps : MarkAsCalled(p)

SpecOverlap == InitOverlap /\ [][NextOverlap]_vars

-----------------------------------------------------------------------------
(* Properties of the pre-pickup deduplication *)

\* the positions of the log that hold an entry of kind e
Events(e) == {i \in DOMAIN log : log[i].e = e}

WebhooksOf(call) == {i \in Events("webhook") : log[i].call = call}

\* the status codes of a webhook that went through
Accepted == {Num(200), Num(201), Num(202)}

BeginOf(call) == CHOOSE i \in Events("begin") : log[i].call = call

\* the position at which the call returned, past the end of the log while it runs
ReturnAt(call) ==
    IF \E j \in Events("return") : log[j].call = call
    THEN CHOOSE j \in Events("return") : log[j].call = call
    ELSE Len(log) + 1

Expired(key, i, j) == \E k \in i..j : log[k].e = "expire" /\ log[k].key = key

\* REDIS_URL is set and no access to Redis fails
RedisReachable == env.REDIS_URL /\ ~env.faults

\* the returns of the calls for the key of entry i that began after the call of
\* entry i had returned, the key not having expired since
LaterReturns(i) ==
    {j \in Events("return") :
        /\ log[j].key = log[i].key
        /\ BeginOf(log[j].call) > ReturnAt(log[i].call)
        /\ ~Expired(log[i].key, i, j)}

\* no key got a second accepted webhook while it was held
OneAcceptedWebhook ==
    \A i \in Events("webhook") : \A j \in Events("webhook") :
        (i < j /\ log[i].key = log[j].key /\ log[i].val \in Accepted /\ log[j].val \in Accepted)
            => Expired(log[i].key, i, j)

\* C24 as stated: with Redis reachable, once a webhook for an order id was
\* accepted, every later call for that id that does not overlap returns
\* 'already_called' and sends no webhook, as long as the key has not expired.
C24_AlreadyCalled ==
    RedisReachable =>
        /\ \A i \in Events("webhook") : log[i].val \in Accepted =>
              \A j \in LaterReturns(i) :
                  /\ log[j].val = PyStr("already_called")
                  /\ WebhooksOf(log[j].call) = {}
        /\ OneAcceptedWebhook

\* C24 as amended: every such later call sends no webhook, and returns
\* 'already_called' when its order passes the filters that come before the
\* Redis check; an order id gets at most one accepted webhook.
C24_NoSecondWebhook ==
    RedisReachable =>
        /\ \A i \in Events("webhook") : log[i].val \in Accepted =>
              \A j \in LaterReturns(i) :
                  /\ WebhooksOf(log[j].call) = {}
                  /\ PrePickupFilter(log[BeginOf(log[j].call)].order) = Passed
                        => log[j].val = PyStr("already_called")
        /\ OneAcceptedWebhook

\* order 1001 got its webhook and the next call for it is turned away
C24_Witness ==
    /\ RedisReachable
    /\ \E i \in Events("webhook") :
          /\ log[i].val \in Accepted
          /\ log[i].id = PyStr("1001")
          /\ \E j \in LaterReturns(i) : log[j].val = PyStr("already_called")

\* C25: mark_as_called is reached only after the call's webhook came back with
\* 200, 201 or 202, every key of Redis was stored by such a call, and a call
\* that returns anything but 'webhook_sent' (a filter's reason, 'already_called',
\* 'webhook_failed', an error, a raise) has not marked its order.
C25_MarkedOnlyAfterSuccess ==
    /\ \A j \in Events("mark") :
          \E i \in WebhooksOf(log[j].call) : i < j /\ log[i].val \in Accepted
    /\ \A key \in redis :
          \E j \in Events("mark") : log[j].key = key /\ log[j].val = PyStr("ok")
    /\ \A j \in Events("return") :
          log[j].val # PyStr("webhook_sent")
              => \A k \in Events("mark") : log[k].call # log[j].call

\* a webhook failed, the order was not marked, and the next call sends again
C25_Witness ==
    /\ RedisReachable
    /\ redis = {}
    /\ \E j \in Events("return") :
          /\ log[j].val = PyStr("webhook_failed")
          /\ \E i \in Events("webhook") : i > j /\ log[i].key = log[j].key

\* the two calls were in progress at the same time
Overlapping(c, d) == BeginOf(d) < ReturnAt(c) /\ BeginOf(c) < ReturnAt(d)

\* C26: when two sweeps process the same order id at the same time against a
\* reachable Redis, at most one of them gets a webhook for it through (which
\* the claim, that at most one webhook is sent, implies).
C26_AtMostOnce ==
    \A i \in Events("webhook") : \A j \in Events("webhook") :
        (i < j /\ log[i].key = log[j].key /\ Overlapping(log[i].call, log[j].call))
            => ~(log[i].val \in Accepted /\ log[j].val \in Accepted)

\* what the log holds for an access to Redis that did not come about
Unreachable == {PyStr("unset"), PyStr("connect_failed"), PyStr("raised")}

\* C27: when Redis cannot be asked, has_been_called gives False without raising:
\* the call does not return 'already_called', and unless the cleaning of the
\* phones raises it sends the webhook and reports 'webhook_sent' or
\* 'webhook_failed'; when Redis cannot be written, mark_as_called does not
\* raise and stores nothing: the call still reports 'webhook_sent'; without
\* REDIS_URL no key is ever stored.
C27_FailsOpen ==
    /\ \A i \in Events("check") : log[i].val \in Unreachable =>
          \A j \in Events("return") : log[j].call = log[i].call =>
              /\ log[j].val # PyStr("already_called")
              /\ ~CleanRaises(log[BeginOf(log[i].call)].order) =>
                    /\ WebhooksOf(log[i].call) # {}
                    /\ log[j].val \in {PyStr("webhook_sent"), PyStr("webhook_failed")}
    /\ \A i \in Events("mark") : log[i].val \in Unreachable =>
          /\ log[i + 1].e = "return"
          /\ log[i + 1].val = PyStr("webhook_sent")
          /\ (\A k \in Events("mark") : log[k].val \in Unreachable) => redis = {}
    /\ ~env.REDIS_URL => redis = {}

\* without REDIS_URL order 1001 is sent, with success, by two calls in a row
C27_Witness ==
    /\ ~env.REDIS_URL
    /\ \E i \in Events("webhook") : \E j \in Events("webhook") :
          /\ log[i].call = 1 /\ log[j].call = 2
          /\ log[i].val = Num(200) /\ log[j].val = Num(200)
          /\ log[i].id = PyStr("1001") /\ log[j].id = PyStr("1001")
    /\ Cardinality({j \in Events("return") : log[j].val = PyStr("webhook_sent")}) = 2

-----------------------------------------------------------------------------
(* The pre-shipment and in-transit sweeps *)

\* what requests.post gives the webhooks of these two sweeps
SweepStatuses == {Num(200), Num(500), Raised}

\* utils.send_webhook: the result dict (the response and error texts left out)
send_webhook(order_id, status_code) ==
    IF IsRaised(status_code)
    THEN Dict([order_id |-> order_id, error |-> PyStr(""), success |-> Bool(FALSE)])
    ELSE IF success(status_code)
    THEN Dict([order_id |-> order_id, webhook_status |-> status_code,
               success |-> Bool(TRUE)])
    ELSE Dict([order_id |-> order_id, webhook_status |-> status_code,
               success |-> Bool(FALSE), error |-> PyStr("")])

\* the log entry of a webhook sent for the order at a position of the list
Webhook(position, order_id, call_type, status_code) ==
    Event("webhook", position, order_id, S(call_type), status_code, None)

\* next((m for m in movements if m.get("id") == movement_id), None) from
\* position q on; Raised when an element met on the way is not a mapping
RECURSIVE CurrentMovement(_, _, _)
CurrentMovement(movements, movement_id, q) ==
    IF q > Len(movements) THEN None
    ELSE IF ~IsDict(movements[q]) THEN Raised
    ELSE IF Get(movements[q], "id") = movement_id THEN movements[q]
    ELSE CurrentMovement(movements, movement_id, q + 1)

\* pre_shipment.process_pre_shipment_orders, the body of the loop for one
\* order: "skip" (continue), "send" (both webhooks), "fault" (the except
\* branch appends an error entry), "abort" (the except branch raises itself)
PreShipmentStep(order) ==
    IF ~IsDict(order) THEN "abort"
    ELSE
    LET stops == GetOr(order, "stops", EmptyList)
        first_stop == IF IsList(stops) /\ stops.l # <<>> THEN stops.l[1] ELSE Raised
        movements == GetOr(order, "movement", EmptyList)
        current_movement ==
            IF IsList(movements)
            THEN CurrentMovement(movements.l, Get(order, "curr_movement_id"), 1)
            ELSE Raised
    IN  IF ~Truthy(stops) THEN "skip"
        ELSE IF ~IsDict(first_stop) THEN "fault"
        ELSE IF Truthy(Get(first_stop, "actual_arrival")) THEN "skip"
        ELSE IF ~Truthy(Get(first_stop, "sched_arrive_early")) THEN "skip"
        ELSE IF ~Truthy(Get(first_stop, "__timezone")) THEN "skip"
        ELSE IF IsList(Get(first_stop, "__timezone")) \/ IsDict(Get(first_stop, "__timezone"))
             THEN "fault"
        ELSE IF Get(first_stop, "__timezone") \notin TIMEZONE_MAPPING THEN "skip"
        ELSE IF TimeRaises(Get(first_stop, "sched_arrive_early")) THEN "fault"
        ELSE IF ~Truthy(movements) THEN "skip"
        ELSE IF IsRaised(current_movement) THEN "fault"
        ELSE IF ~Truthy(current_movement) THEN "skip"
        ELSE IF Get(current_movement, "brokerage_status") # PyStr("BOOKED") THEN "skip"
        ELSE IF ~Truthy(Get(current_movement, "override_drvr_cell"))
                /\ ~Truthy(Get(current_movement, "carrier_phone")) THEN "skip"
        ELSE "send"

\* the entry the except branch appends
ErrorEntry(order) ==
    Dict([order_id |-> GetOr(order, "id", unknown), error |-> PyStr(""),
          success |-> Bool(FALSE)])

PreShipmentSkip ==
    /\ fn = "process_pre_shipment_orders"
    /\ pc = "loop"
    /\ idx < Len(orders)
    /\ PreShipmentStep(orders[idx + 1]) = "skip"
    /\ idx' = idx + 1
    /\ UNCHANGED <<fn, input, output, orders, payloads, pc, env, redis, calls, log>>

PreShipmentFault ==
    /\ fn = "process_pre_shipment_orders"
    /\ pc = "loop"
    /\ idx < Len(orders)
    /\ PreShipmentStep(orders[idx + 1]) = "fault"
    /\ output' = List(output.l \o <<ErrorEntry(orders[idx + 1])>>)
    /\ idx' = idx + 1
    /\ UNCHANGED <<fn, input, orders, payloads, pc, env, redis, calls, log>>

\* order.get in the except branch raises: the exception leaves the function
PreShipmentAbort ==
    /\ fn = "process_pre_shipment_orders"
    /\ pc = "loop"
    /\ idx < Len(orders)
    /\ PreShipmentStep(orders[idx + 1]) = "abort"
    /\ output' = Raised
    /\ pc' = "raised"
    /\ UNCHANGED <<fn, input, orders, idx, payloads, env, redis, calls, log>>

\* lines 116-123
Send2Hour ==
    /\ fn = "process_pre_shipment_orders"
    /\ pc = "loop"
    /\ idx < Len(orders)
    /\ PreShipmentStep(orders[idx + 1]) = "send"
    /\ \E status_code \in SweepStatuses :
          LET order_id == GetOr(orders[idx + 1], "id", unknown)
          IN  /\ log' = log \o <<Webhook(idx + 1, order_id, "2_hour_before", status_code)>>
              /\ output' = List(output.l \o <<send_webhook(order_id, status_code)>>)
    /\ pc' = "30m"
    /\ UNCHANGED <<fn, input, orders, idx, payloads, env, redis, calls>>

\* lines 125-133
Send30Minute ==
    /\ fn = "process_pre_shipment_orders"
    /\ pc = "30m"
    /\ \E status_code \in SweepStatuses :
          LET order_id == GetOr(orders[idx + 1], "id", unknown)
          IN  /\ log' = log \o <<Webhook(idx + 1, order_id, "30_minute_before", status_code)>>
              /\ output' = List(output.l \o <<send_webhook(order_id, status_code)>>)
    /\ pc' = "loop"
    /\ idx' = idx + 1
    /\ UNCHANGED <<fn, input, orders, payloads, env, redis, calls>>

PreShipmentReturn ==
    /\ fn = "process_pre_shipment_orders"
    /\ pc = "loop"
    /\ idx = Len(orders)
    /\ pc' = "returned"
    /\ UNCHANGED <<fn, input, output, orders, idx, payloads, env, redis, calls, log>>

NextPreShipment ==
    \/ PreShipmentSkip
    \/ PreShipmentFault
    \/ PreShipmentAbort
    \/ Send2Hour
    \/ Send30Minute
    \/ PreShipmentReturn

Booked == Carrier(PyStr("M1"), PyStr("BOOKED"), PyStr("5550102"), Absent)

\* the orders of the pre-shipment sweep: two that qualify, the others skipped
\* by one of the filters, faulting, or not a mapping
PreShipmentOrders ==
    {SweepOrder(PyStr("1001"), List(<<DueStop>>), List(<<Booked>>)),
     SweepOrder(PyStr("1002"), List(<<DueStop, DueStop>>),
                List(<<Carrier(PyStr("M0"), PyStr("COVERED"), Absent, Absent),
                       Carrier(PyStr("M1"), PyStr("BOOKED"), Absent, PyStr("5550103"))>>)),
     SweepOrder(PyStr("1003"), Absent, List(<<Booked>>)),
     SweepOrder(PyStr("1003"), List(<<None>>), List(<<Booked>>)),
     SweepOrder(PyStr("1003"), List(<<DueStop>>), Absent),
     SweepOrder(PyStr("1003"), List(<<DueStop>>), Booked),
     SweepOrder(PyStr("1003"), List(<<DueStop>>), List(<<None, Booked>>)),
     None,
     PyStr("order")}
    \cup {SweepOrder(PyStr("1003"), List(<<st>>), List(<<Booked>>)) :
            st \in {PickupStop(PyStr("20240101075500-0600"), PickupAt, PyStr("CST")),
                    PickupStop(Absent, Absent, PyStr("CST")),
                    PickupStop(Absent, PickupAt, Absent),
                    PickupStop(Absent, PickupAt, PyStr("XYZ")),
                    PickupStop(Absent, PyStr("tomorrow"), PyStr("CST"))}}
    \cup {SweepOrder(PyStr("1003"), List(<<DueStop>>), List(<<mv>>)) :
            mv \in {Carrier(PyStr("M2"), PyStr("BOOKED"), PyStr("5550102"), Absent),
                    Carrier(PyStr("M1"), PyStr("COVERED"), PyStr("5550102"), Absent),
                    Carrier(PyStr("M1"), PyStr("BOOKED"), Absent, PyStr(""))}}

InitSweep ==
    /\ input = None
    /\ output = EmptyList
    /\ idx = 0
    /\ payloads = <<>>
    /\ pc = "loop"
    /\ NoSweep

InitPreShipment ==
    /\ \E n \in 0..MaxOrders : orders \in [1..n -> PreShipmentOrders]
    /\ fn = "process_pre_shipment_orders"
    /\ InitSweep

SpecPreShipment == InitPreShipment /\ [][NextPreShipment]_vars

\* in_transit.process_in_transit_orders, the body of the loop for one order:
\* "skip", "send", "fault" or "abort" as in PreShipmentStep
InTransitStep(order) ==
    IF ~IsDict(order) THEN "abort"
    ELSE
    LET stops == GetOr(order, "stops", EmptyList)
        movements == GetOr(order, "movement", EmptyList)
        movement == IF IsList(movements) /\ movements.l # <<>> THEN movements.l[1] ELSE movements
    IN  \* is_in_transit
        IF ~IsList(stops) THEN (IF IsDict(stops) /\ Cardinality(DOMAIN stops.d) < 2
                                THEN "skip" ELSE "fault")
        ELSE IF Len(stops.l) < 2 THEN "skip"
        ELSE IF ~IsDict(stops.l[1]) \/ ~IsDict(stops.l[Len(stops.l)]) THEN "fault"
        ELSE IF ~Truthy(Get(stops.l[1], "actual_arrival")) THEN "skip"
        ELSE IF Truthy(Get(stops.l[Len(stops.l)], "actual_arrival")) THEN "skip"
        \* passes_brokerage_status_filter, and line 71 when it fails
        ELSE IF ~Truthy(movements)
             THEN (IF ~Has(order, "movement") THEN "skip" ELSE "fault")
        ELSE IF ~IsDict(movement) THEN "fault"
        ELSE IF Get(movement, "brokerage_status") # PyStr("TRANSIT")
             THEN (IF IsList(movements) THEN "skip" ELSE "fault")
        ELSE IF ~Truthy(GetOr(movement, "override_drvr_cell", PyStr("")))
                /\ ~Truthy(GetOr(movement, "carrier_phone", PyStr(""))) THEN "skip"
        ELSE "send"

call_type == PyStr("morning")

InTransitSkip ==
    /\ fn = "process_in_transit_orders"
    /\ pc = "loop"
    /\ idx < Len(orders)
    /\ InTransitStep(orders[idx + 1]) = "skip"
    /\ idx' = idx + 1
    /\ UNCHANGED <<fn, input, output, orders, payloads, pc, env, redis, calls, log>>

InTransitFault ==
    /\ fn = "process_in_transit_orders"
    /\ pc = "loop"
    /\ idx < Len(orders)
    /\ InTransitStep(orders[idx + 1]) = "fault"
    /\ output' = List(output.l \o <<SetItem(ErrorEntry(orders[idx + 1]), "call_type", call_type)>>)
    /\ idx' = idx + 1
    /\ UNCHANGED <<fn, input, orders, payloads, pc, env, redis, calls, log>>

\* order.get in the except branch raises: the exception leaves the function
InTransitAbort ==
    /\ fn = "process_in_transit_orders"
    /\ pc = "loop"
    /\ idx < Len(orders)
    /\ InTransitStep(orders[idx + 1]) = "abort"
    /\ output' = Raised
    /\ pc' = "raised"
    /\ UNCHANGED <<fn, input, orders, idx, payloads, env, redis, calls, log>>

\* lines 96-109
InTransitSend ==
    /\ fn = "process_in_transit_orders"
    /\ pc = "loop"
    /\ idx < Len(orders)
    /\ InTransitStep(orders[idx + 1]) = "send"
    /\ \E status_code \in SweepStatuses :
          LET order_id == GetOr(orders[idx + 1], "id", unknown)
          IN  /\ log' = log \o <<Webhook(idx + 1, order_id, "morning", status_code)>>
              /\ output' = List(output.l \o <<SetItem(send_webhook(order_id, status_code),
                                                      "call_type", call_type)>>)
    /\ idx' = idx + 1
    /\ UNCHANGED <<fn, input, orders, payloads, pc, env, redis, calls>>

InTransitReturn ==
    /\ fn = "process_in_transit_orders"
    /\ pc = "loop"
    /\ idx = Len(orders)
    /\ pc' = "returned"
    /\ UNCHANGED <<fn, input, output, orders, idx, payloads, env, redis, calls, log>>

NextInTransit ==
    \/ InTransitSkip
    \/ InTransitFault
    \/ InTransitAbort
    \/ InTransitSend
    \/ InTransitReturn

ArrivedStop == PickupStop(PyStr("20240101075500-0600"), PickupAt, PyStr("CST"))
InTransit == Carrier(PyStr("M1"), PyStr("TRANSIT"), PyStr("5550102"), Absent)

\* the orders of the in-transit sweep: three that are checked in on, the
\* others skipped by one of the filters, faulting, or not a mapping
InTransitOrders ==
    {SweepOrder(PyStr("1001"), List(<<ArrivedStop, DueStop>>), List(<<InTransit>>)),
     SweepOrder(PyStr("1002"), List(<<ArrivedStop, ArrivedStop, DueStop>>),
                List(<<Carrier(PyStr("M1"), PyStr("TRANSIT"), Absent, PyStr("5550103")), Booked>>)),
     SweepOrder(PyStr("1003"), List(<<ArrivedStop, DueStop>>), InTransit),
     None,
     PyStr("order")}
    \cup {SweepOrder(PyStr("1004"), stops, List(<<InTransit>>)) :
            stops \in {Absent, None, EmptyList, List(<<ArrivedStop>>),
                       List(<<DueStop, DueStop>>), List(<<ArrivedStop, ArrivedStop>>),
                       List(<<ArrivedStop, None>>)}}
    \cup {SweepOrder(PyStr("1004"), List(<<ArrivedStop, DueStop>>), mv) :
            mv \in {Absent, None, EmptyList, Booked, List(<<Booked>>), List(<<None>>),
                    List(<<Carrier(PyStr("M1"), PyStr("TRANSIT"), Absent, PyStr(""))>>),
                    List(<<Carrier(PyStr("M1"), PyStr("TRANSIT"), Absent, Absent)>>)}}

InitInTransit ==
    /\ \E n \in 0..MaxOrders : orders \in [1..n -> InTransitOrders]
    /\ fn = "process_in_transit_orders"
    /\ InitSweep

SpecInTransit == InitInTransit /\ [][NextInTransit]_vars

-----------------------------------------------------------------------------
(* Properties of the pre-shipment and in-transit sweeps *)

\* the sweep is over: it returned its results or an exception left it
Finished == pc \in {"returned", "raised"}

\* the call types of the webhooks sent for the order at position k, in order
CallTypesAt(k) ==
    LET sent == SelectSeq(log, LAMBDA ev : ev.e = "webhook" /\ ev.call = k)
    IN  [i \in DOMAIN sent |-> sent[i].key]

\* an order that qualifies for the pre-shipment calls: it has stops, its
\* first stop has not arrived and has a scheduled time in a known timezone,
\* its current movement is found and BOOKED, and there is a phone number
QualifiesPreShipment(order) ==
    /\ IsDict(order)
    /\ IsList(Get(order, "stops"))
    /\ Get(order, "stops").l # <<>>
    /\ LET first_stop == Get(order, "stops").l[1]
       IN  /\ IsDict(first_stop)
           /\ ~Truthy(Get(first_stop, "actual_arrival"))
           /\ Truthy(Get(first_stop, "sched_arrive_early"))
           /\ ~TimeRaises(Get(first_stop, "sched_arrive_early"))
           /\ Get(first_stop, "__timezone") \in TIMEZONE_MAPPING
    /\ IsList(Get(order, "movement"))
    /\ LET found == CurrentMovement(Get(order, "movement").l,
                                    Get(order, "curr_movement_id"), 1)
       IN  /\ IsDict(found)
           /\ Get(found, "brokerage_status") = PyStr("BOOKED")
           /\ \/ Truthy(Get(found, "override_drvr_cell"))
              \/ Truthy(Get(found, "carrier_phone"))

\* C28: when process_pre_shipment_orders is over, every order of the list has
\* been processed; each qualifying order caused exactly two webhooks, the
\* '2_hour_before' one and then the '30_minute_before' one, whatever the
\* first one's outcome; every other order caused none.
C28_TwoCallsPerQualifyingOrder ==
    (fn = "process_pre_shipment_orders" /\ Finished) =>
        /\ idx = Len(orders)
        /\ \A k \in DOMAIN orders :
              CallTypesAt(k) = IF QualifiesPreShipment(orders[k])
                               THEN <<S("2_hour_before"), S("30_minute_before")>>
                               ELSE <<>>

\* the movement the in-transit sweep looks at: the first of the list, or the
\* one mapping given in place of a list
SweptMovement(order) ==
    LET movements == Get(order, "movement")
    IN  IF IsList(movements)
        THEN (IF movements.l # <<>> THEN movements.l[1] ELSE None)
        ELSE movements

\* an order the in-transit sweep may call about
QualifiesInTransit(order) ==
    /\ IsDict(order)
    /\ IsList(Get(order, "stops"))
    /\ Len(Get(order, "stops").l) >= 2
    /\ LET stops == Get(order, "stops").l
       IN  /\ IsDict(stops[1])
           /\ Truthy(Get(stops[1], "actual_arrival"))
           /\ IsDict(stops[Len(stops)])
           /\ ~Truthy(Get(stops[Len(stops)], "actual_arrival"))
    /\ IsDict(SweptMovement(order))
    /\ Get(SweptMovement(order), "brokerage_status") = PyStr("TRANSIT")
    /\ \/ Get(SweptMovement(order), "override_drvr_cell") \notin {None, PyStr("")}
       \/ Get(SweptMovement(order), "carrier_phone") \notin {None, PyStr("")}

\* the orders of the list on which the body of the loop raises
InTransitRaised == {k \in DOMAIN orders : InTransitStep(orders[k]) \in {"fault", "abort"}}

\* C29: process_in_transit_orders sends a webhook only for an order with at
\* least two stops, picked up and not delivered, whose first movement is in
\* TRANSIT and has a phone number, and at most one per order; when it is
\* over, every order has been processed and the results hold one entry per
\* webhook and one error entry per order that raised.
C29_InTransitOnly ==
    fn = "process_in_transit_orders" =>
        /\ \A k \in DOMAIN orders :
              /\ Len(CallTypesAt(k)) <= 1
              /\ Len(CallTypesAt(k)) = 1 => QualifiesInTransit(orders[k])
        /\ Finished =>
              /\ idx = Len(orders)
              /\ IsList(output)
              /\ Len(output.l) = Len(log) + Cardinality(InTransitRaised)

====
